---- MODULE Spec2Model ----
(***************************************************************************)
(* cachetf: a caching network mirror for Terraform providers.              *)
(*                                                                         *)
(* Strings are sequences of one-character strings, so that prefixes,       *)
(* regular expressions and path normalisation are computed character by    *)
(* character, as the Go code computes them.  A path is a sequence of       *)
(* segments; a file's content is a sequence of chunks (small integers).    *)
(***************************************************************************)
EXTENDS Integers, Sequences, FiniteSets, TLC

VARIABLES
    backend,    \* "local" or "s3": the store main() builds at startup
    files,      \* local disk: path -> [data, want, id]  (want: the payload its writer
                \* was given; id: the number of the call that created the entry)
    dirs,       \* local disk: the set of directory paths
    bucket,     \* S3 bucket: key -> [data, want, id]
    mutexes,    \* LocalStorage.mutexes: key -> holder (0 when unlocked)
    hits,       \* cache_hits_total
    misses,     \* cache_misses_total
    deletions,  \* cache_deletions_total
    sizeGauge,  \* cache_size_bytes
    op,         \* per worker: the store operation in progress
    calls,      \* number of store calls issued so far
    crashes,    \* number of process crashes so far
    request,    \* per worker: the HTTP request being handled and its response
    mu,         \* RegistryHandler.mu: the worker holding it (0 when unlocked)
    received,   \* number of requests received so far
    archiveCalls, \* number of archive downloads sent to the upstream so far
    reported,   \* <<key, shasum>>: the shasum the upstream reported for an install of key
    loop,       \* S3 DeleteByPrefix seen by index: objectIds' length, i, deletedCount, batches
    proc        \* main(): its position, the two listeners and the shutdownComplete channel

cacheVars == <<backend, files, dirs, bucket, mutexes, hits, misses, deletions, sizeGauge, op, calls,
               crashes, request, mu, received, archiveCalls, reported>>

vars == <<cacheVars, loop, proc>>

----------------------------------------------------------------------------
(* Bounds *)

NumWorkers == 2
MaxCalls == 3
MaxCrashes == 1
MaxChunks == 2

Workers == 1..NumWorkers

----------------------------------------------------------------------------
(* Characters and strings *)

Digit == {"0", "1", "2", "3", "4", "5", "6", "7", "8", "9"}
Lower == {"a", "b", "c", "d", "e", "f", "g", "h", "i", "j", "k", "l", "m",
          "n", "o", "p", "q", "r", "s", "t", "u", "v", "w", "x", "y", "z"}
Upper == {"A", "B", "C", "D", "E", "F", "G", "H", "I", "J", "K", "L", "M",
          "N", "O", "P", "Q", "R", "S", "T", "U", "V", "W", "X", "Y", "Z"}
Slash == <<"/">>
DotDot == <<".", ".">>
Dot == <<".">>

HasPrefix(s, p) == Len(s) >= Len(p) /\ SubSeq(s, 1, Len(p)) = p
HasSuffix(s, p) == Len(s) >= Len(p) /\ SubSeq(s, Len(s) - Len(p) + 1, Len(s)) = p
TrimSuffix(s, p) == IF HasSuffix(s, p) THEN SubSeq(s, 1, Len(s) - Len(p)) ELSE s
AllIn(s, C) == \A i \in 1..Len(s) : s[i] \in C
NoneIn(s, C) == \A i \in 1..Len(s) : s[i] \notin C
\* the regular expression  [C]+
Plus(s, C) == Len(s) >= 1 /\ AllIn(s, C)

\* strings.Join(parts, "/")
RECURSIVE JoinSlash(_)
JoinSlash(parts) ==
    IF Len(parts) = 0 THEN <<>>
    ELSE IF Len(parts) = 1 THEN parts[1]
    ELSE parts[1] \o Slash \o JoinSlash(Tail(parts))

\* the segments of s between "/" characters (empty segments included)
RECURSIVE SplitSlash(_)
SplitSlash(s) ==
    IF \A i \in 1..Len(s) : s[i] # "/" THEN <<s>>
    ELSE LET i == CHOOSE j \in 1..Len(s) : s[j] = "/" /\ \A k \in 1..(j - 1) : s[k] # "/"
         IN <<SubSeq(s, 1, i - 1)>> \o SplitSlash(SubSeq(s, i + 1, Len(s)))

----------------------------------------------------------------------------
(* Identifier validation (internal/handler/registry.go) *)

\* \w of Go's regexp
WordChar == Lower \cup Upper \cup Digit \cup {"_"}

\* \d+\.\d+\.\d+
IsCoreVersion(s) ==
    \E i \in 1..Len(s) :
        /\ s[i] = "."
        /\ Plus(SubSeq(s, 1, i - 1), Digit)
        /\ \E j \in (i + 1)..Len(s) :
              /\ s[j] = "."
              /\ Plus(SubSeq(s, i + 1, j - 1), Digit)
              /\ Plus(SubSeq(s, j + 1, Len(s)), Digit)

\* (c[C]+)?  : empty, or the character c followed by one or more of C
Optional(s, c, C) == s = <<>> \/ (s[1] = c /\ Plus(Tail(s), C))

validOS == {<<"d", "a", "r", "w", "i", "n">>, <<"f", "r", "e", "e", "b", "s", "d">>,
            <<"l", "i", "n", "u", "x">>, <<"o", "p", "e", "n", "b", "s", "d">>,
            <<"s", "o", "l", "a", "r", "i", "s">>, <<"w", "i", "n", "d", "o", "w", "s">>}

validArches == {<<"3", "8", "6">>, <<"a", "m", "d", "6", "4">>, <<"a", "r", "m">>,
                <<"a", "r", "m", "6", "4">>, <<"p", "p", "c", "6", "4", "l", "e">>}

isValidOS(osName) == osName \in validOS

\* not empty, and none of space, slash, backslash
isValidRegistry(registry) == registry # <<>> /\ NoneIn(registry, {" ", "/", "\\"})

\* ^[a-zA-Z0-9]([a-zA-Z0-9-]*[a-zA-Z0-9])?$
isValidNamespace(namespace) ==
    /\ namespace # <<>>
    /\ AllIn(namespace, Lower \cup Upper \cup Digit \cup {"-"})
    /\ namespace[1] # "-"
    /\ namespace[Len(namespace)] # "-"

\* ^[a-z0-9-]+$ , not starting and not ending with a hyphen
isValidProvider(provider) ==
    /\ provider # <<>>
    /\ Plus(provider, Lower \cup Digit \cup {"-"})
    /\ ~HasPrefix(provider, <<"-">>)
    /\ ~HasSuffix(provider, <<"-">>)

\* ^\d+\.\d+\.\d+(-[a-zA-Z0-9.+-]+)?(\+[a-zA-Z0-9.+-]+)?$
isValidVersion(version) ==
    /\ version # <<>>
    /\ \E a \in 1..Len(version) :
          /\ IsCoreVersion(SubSeq(version, 1, a))
          /\ \E b \in a..Len(version) :
                /\ Optional(SubSeq(version, a + 1, b), "-",
                            Lower \cup Upper \cup Digit \cup {".", "+", "-"})
                /\ Optional(SubSeq(version, b + 1, Len(version)), "+",
                            Lower \cup Upper \cup Digit \cup {".", "+", "-"})

isValidArch(arch) == arch \in validArches

TerraformProvider == <<"t", "e", "r", "r", "a", "f", "o", "r", "m", "-",
                       "p", "r", "o", "v", "i", "d", "e", "r", "-">>
DotZip == <<".", "z", "i", "p">>
DotJson == <<".", "j", "s", "o", "n">>
IndexJson == <<"i", "n", "d", "e", "x">> \o DotJson
Underscore == <<"_">>

\* fmt.Sprintf("terraform-provider-%s_%s_%s_%s.zip", provider, version, os, arch)
ArchiveName(provider, version, platform, arch) ==
    TerraformProvider \o provider \o Underscore \o version \o Underscore
        \o platform \o Underscore \o arch \o DotZip

\* a key that leaves the architecture out
getCacheKeyNoArch(registry, namespace, provider, version, platform, arch) ==
    JoinSlash(<<registry, namespace, provider, version,
                ArchiveName(provider, version, platform, <<>>)>>)

getCacheKey(registry, namespace, provider, version, platform, arch) ==
    JoinSlash(<<registry, namespace, provider, version,
                ArchiveName(provider, version, platform, arch)>>)

----------------------------------------------------------------------------
(* Routing (internal/routes/routes.go) *)

\* re: ^(\d+\.\d+\.\d+)(?:-[\w-]+)?(?:\.json)?$
IsRouteVersion(s) ==
    \E a \in 1..Len(s) :
        /\ IsCoreVersion(SubSeq(s, 1, a))
        /\ \E b \in a..Len(s) :
              /\ Optional(SubSeq(s, a + 1, b), "-", WordChar \cup {"-"})
              /\ SubSeq(s, b + 1, Len(s)) \in {<<>>, DotJson}

\* \d+\.\d+\.\d+(?:-[\w-]+)?
IsArchiveVersion(s) ==
    \E a \in 1..Len(s) :
        /\ IsCoreVersion(SubSeq(s, 1, a))
        /\ Optional(SubSeq(s, a + 1, Len(s)), "-", WordChar \cup {"-"})

\* the ways ^terraform-provider-([^_]+?)_(\d+\.\d+\.\d+(?:-[\w-]+)?)_([^_]+)_([^.]+)\.zip$
\* matches: the positions <<i, j, k>> of the three separating underscores in
\* what lies between "terraform-provider-" and ".zip"
ArchiveSplits(body) ==
    LET U == {i \in 1..Len(body) : body[i] = "_"}
    IN {t \in U \X U \X U :
           /\ t[1] < t[2] /\ t[2] < t[3]
           /\ Len(SubSeq(body, 1, t[1] - 1)) >= 1
           /\ NoneIn(SubSeq(body, 1, t[1] - 1), {"_"})
           /\ IsArchiveVersion(SubSeq(body, t[1] + 1, t[2] - 1))
           /\ Len(SubSeq(body, t[2] + 1, t[3] - 1)) >= 1
           /\ NoneIn(SubSeq(body, t[2] + 1, t[3] - 1), {"_"})
           /\ Len(SubSeq(body, t[3] + 1, Len(body))) >= 1
           /\ NoneIn(SubSeq(body, t[3] + 1, Len(body)), {"."})}

\* re.FindStringSubmatch(fileOrVersion): <<>> when there is no match, otherwise
\* <<whole, name, version, os, arch>>; the greedy pre-release takes the longest
\* version for which the rest still matches
FindArchiveSubmatch(file) ==
    IF ~(HasPrefix(file, TerraformProvider) /\ HasSuffix(file, DotZip)
         /\ Len(file) >= Len(TerraformProvider) + Len(DotZip))
    THEN <<>>
    ELSE LET body == SubSeq(file, Len(TerraformProvider) + 1, Len(file) - Len(DotZip))
             splits == ArchiveSplits(body)
         IN IF splits = {} THEN <<>>
            ELSE LET t == CHOOSE x \in splits : \A y \in splits : y[2] <= x[2]
                 IN <<file,
                      SubSeq(body, 1, t[1] - 1),
                      SubSeq(body, t[1] + 1, t[2] - 1),
                      SubSeq(body, t[2] + 1, t[3] - 1),
                      SubSeq(body, t[3] + 1, Len(body))>>

NoParams == [registry |-> <<>>, namespace |-> <<>>, provider |-> <<>>, version |-> <<>>,
             os |-> <<>>, arch |-> <<>>, file |-> <<>>]

\* a router whose fall-through serves the provider index instead of refusing
DispatchIndexFallback(method, segs) ==
    LET n == Len(segs)
        none == [handler |-> "NoRoute", params |-> NoParams]
    IN IF n = 0 \/ \E i \in 1..n : segs[i] = <<>> THEN none
       ELSE IF method = "DELETE"
       THEN IF n > 5 THEN none
            ELSE [handler |-> "DeleteCache",
                  params |-> [NoParams EXCEPT
                      !.registry = segs[1],
                      !.namespace = IF n >= 2 THEN segs[2] ELSE <<>>,
                      !.provider = IF n >= 3 THEN segs[3] ELSE <<>>,
                      !.version = IF n >= 4 THEN segs[4] ELSE <<>>,
                      !.file = IF n >= 5 THEN segs[5] ELSE <<>>]]
       ELSE IF method # "GET" \/ n # 4 THEN none
       ELSE LET base == [NoParams EXCEPT !.registry = segs[1], !.namespace = segs[2],
                                         !.provider = segs[3]]
                fileOrVersion == segs[4]
                version == TrimSuffix(fileOrVersion, DotJson)
                matches == FindArchiveSubmatch(fileOrVersion)
            IN IF IsRouteVersion(version)
               THEN [handler |-> "GetProviderVersion",
                     params |-> [base EXCEPT !.version = version]]
               ELSE IF HasSuffix(fileOrVersion, DotZip) /\ Len(matches) = 5
               THEN [handler |-> "DownloadProvider",
                     params |-> [base EXCEPT !.file = fileOrVersion,
                                             !.version = matches[3],
                                             !.os = matches[4],
                                             !.arch = matches[5]]]
               ELSE [handler |-> "GetProviderIndex", params |-> base]

\* the handler a request reaches, with the parameters the router hands it.
\* A request is [method, segs]: segs are the path segments after the URI prefix.
Dispatch(method, segs) ==
    LET n == Len(segs)
        none == [handler |-> "NoRoute", params |-> NoParams]
    IN IF n = 0 \/ \E i \in 1..n : segs[i] = <<>> THEN none
       ELSE IF method = "DELETE"
       THEN IF n > 5 THEN none
            ELSE [handler |-> "DeleteCache",
                  params |-> [NoParams EXCEPT
                      !.registry = segs[1],
                      !.namespace = IF n >= 2 THEN segs[2] ELSE <<>>,
                      !.provider = IF n >= 3 THEN segs[3] ELSE <<>>,
                      !.version = IF n >= 4 THEN segs[4] ELSE <<>>,
                      !.file = IF n >= 5 THEN segs[5] ELSE <<>>]]
       ELSE IF method # "GET" \/ n # 4 THEN none
       ELSE LET base == [NoParams EXCEPT !.registry = segs[1], !.namespace = segs[2],
                                         !.provider = segs[3]]
                fileOrVersion == segs[4]
                version == TrimSuffix(fileOrVersion, DotJson)
                matches == FindArchiveSubmatch(fileOrVersion)
            IN IF fileOrVersion = IndexJson
               THEN [handler |-> "GetProviderIndex", params |-> base]
               ELSE IF IsRouteVersion(version)
               THEN [handler |-> "GetProviderVersion",
                     params |-> [base EXCEPT !.version = version]]
               ELSE IF HasSuffix(fileOrVersion, DotZip)
               THEN IF Len(matches) < 5
                    THEN [handler |-> "InvalidFile", params |-> base]
                    ELSE [handler |-> "DownloadProvider",
                          params |-> [base EXCEPT !.file = fileOrVersion,
                                                  !.version = matches[3],
                                                  !.os = matches[4],
                                                  !.arch = matches[5]]]
               ELSE [handler |-> "Unsupported", params |-> base]

\* the "Validate parameters" test at the head of each registry handler
ValidParams(handler, p) ==
    /\ isValidRegistry(p.registry) /\ isValidNamespace(p.namespace)
    /\ isValidProvider(p.provider)
    /\ handler \in {"GetProviderVersion", "DownloadProvider"} => isValidVersion(p.version)
    /\ handler = "DownloadProvider" => isValidOS(p.os) /\ isValidArch(p.arch)

\* a prefix that stops at the registry
DeletePrefixShort(p) == p.registry

\* DeleteCache: the present parameters joined by "/"
DeletePrefix(p) ==
    JoinSlash(<<p.registry>>
              \o (IF p.namespace = <<>> THEN <<>>
                  ELSE <<p.namespace>>
                       \o (IF p.provider = <<>> THEN <<>>
                           ELSE <<p.provider>>
                                \o (IF p.version = <<>> THEN <<>>
                                    ELSE <<p.version>>
                                         \o (IF p.file = <<>> THEN <<>>
                                             ELSE <<p.file>>)))))

----------------------------------------------------------------------------
(* Paths: filepath.Join and the file system calls LocalStorage makes *)

\* the cache directory (config.CacheDir), an absolute path
BaseDir == << <<"s", "r", "v">>, <<"c", "a", "c", "h", "e">> >>

\* filepath.Clean of an absolute path given as segments
RECURSIVE CleanSegs(_, _)
CleanSegs(acc, rest) ==
    IF Len(rest) = 0 THEN acc
    ELSE LET h == Head(rest)
         IN IF h = <<>> \/ h = Dot THEN CleanSegs(acc, Tail(rest))
            ELSE IF h = DotDot
                 THEN CleanSegs(IF Len(acc) = 0 THEN acc ELSE SubSeq(acc, 1, Len(acc) - 1),
                                Tail(rest))
                 ELSE CleanSegs(Append(acc, h), Tail(rest))

\* keys and prefixes the store's direct callers use: two siblings where one
\* name is a leading substring of the other, and a key that backs out of the
\* root
KeyAws == <<"a", "w", "s", "/", "x">>
KeyAwscc == <<"a", "w", "s", "c", "c", "/", "x">>
KeyEscape == <<".", ".", "/", "e", "/", "x">>
PrefixAws == <<"a", "w", "s">>
PrefixEscape == <<".", ".", "/", "e">>

StoreKeys == {KeyAws, KeyAwscc, KeyEscape}
StorePrefixes == {PrefixAws, KeyAws, PrefixEscape}

\* the identifiers of the requests the clients send
RegistryIO == <<"r", ".", "i", "o">>
Hashicorp == <<"h", "c">>
Aws == <<"a", "w", "s">>
Awscc == <<"a", "w", "s", "c", "c">>
V100 == <<"1", ".", "0", ".", "0">>
Linux == <<"l", "i", "n", "u", "x">>
Arm == <<"a", "r", "m">>

\* the keys the binary handler can form from these requests
CacheKeys ==
    {getCacheKey(r, Hashicorp, p, V100, Linux, Arm) : r \in {RegistryIO, DotDot}, p \in {Aws, Awscc}}

Keys == StoreKeys \cup CacheKeys

\* filepath.Join(s.baseDir, key), computed once for each key of the universe
JoinClean(key) == CleanSegs(<<>>, BaseDir \o SplitSlash(key))
CachePrefixes ==
    LET full == <<RegistryIO, Hashicorp, Aws, V100, ArchiveName(Aws, V100, Linux, Arm)>>
    IN {JoinSlash(SubSeq(full, 1, n)) : n \in 1..5}
JoinedKeys == [k \in Keys \cup StorePrefixes \cup CachePrefixes |-> JoinClean(k)]
JoinBase(key) == IF key \in DOMAIN JoinedKeys THEN JoinedKeys[key] ELSE JoinClean(key)

IsPathPrefix(p, q) == Len(p) <= Len(q) /\ SubSeq(q, 1, Len(p)) = p
UnderBase(path) == IsPathPrefix(BaseDir, path)
ParentDir(path) == SubSeq(path, 1, Len(path) - 1)
Ancestors(path) == {SubSeq(path, 1, n) : n \in 0..(Len(path) - 1)}

\* os.Stat: "file", "dir", "enoent", or "enotdir" (an ancestor is a regular file)
StatKind(fl, ds, path) ==
    IF path \in ds THEN "dir"
    ELSE IF path \in DOMAIN fl THEN "file"
    ELSE IF \E a \in Ancestors(path) : a \in DOMAIN fl THEN "enotdir"
    ELSE "enoent"

\* os.MkdirAll succeeds unless a component of the path is a regular file
MkdirAllOk(fl, path) == \A n \in 0..Len(path) : SubSeq(path, 1, n) \notin DOMAIN fl
MkdirAllDirs(ds, path) == ds \cup {SubSeq(path, 1, n) : n \in 0..Len(path)}

\* os.Create succeeds when the parent is a directory and the path is not one
CreateOk(fl, ds, path) == ParentDir(path) \in ds /\ path \notin ds

\* the regular files at or beneath path
\* a removal that takes the named path only, not what lies beneath it
FilesAt(fl, path) == {f \in DOMAIN fl : f = path}
FilesUnder(fl, path) == {f \in DOMAIN fl : IsPathPrefix(path, f)}
DirsUnder(ds, path) == {d \in ds : IsPathPrefix(path, d)}

Restrict(f, S) == [x \in S |-> f[x]]

RECURSIVE SumSizes(_, _)
SumSizes(fl, S) ==
    IF S = {} THEN 0
    ELSE LET x == CHOOSE y \in S : TRUE
         IN Len(fl[x].data) + SumSizes(fl, S \ {x})

----------------------------------------------------------------------------
(* LocalStorage (internal/storage/local.go), one action per system call *)

NoOp == [name |-> "none", pc |-> "idle", key |-> <<>>, payload |-> <<>>, n |-> 0,
         count |-> 0, size |-> 0, err |-> "nil", ok |-> FALSE, data |-> <<>>,
         snap |-> {}, ids |-> {}, id |-> 0, asked |-> <<>>]

AtLocal(w, nm, pc) == backend = "local" /\ op[w].name = nm /\ op[w].pc = pc
AtS3(w, nm, pc) == backend = "s3" /\ op[w].name = nm /\ op[w].pc = pc
Goto(w, pc) == op' = [op EXCEPT ![w].pc = pc]
\* the operation returns: its result stays, its locals go
Return(w, r) ==
    op' = [op EXCEPT ![w] = [r EXCEPT !.pc = "ret", !.n = 0, !.size = 0, !.snap = {},
                                      !.ids = {}]]

\* mutex.Unlock, deferred in Put
Unlock(w) == mutexes' = [k \in DOMAIN mutexes |-> IF mutexes[k] = w THEN 0 ELSE mutexes[k]]

\* metrics.UpdateSize(size): CacheSizeBytes.Set
UpdateSize(size) == sizeGauge' = size
\* a hit that is not counted
RecordNone == UNCHANGED hits
\* metrics.RecordHit, RecordMiss, RecordDeletion
RecordHit == hits' = hits + 1
RecordMiss == misses' = misses + 1
RecordDeletion(count) == deletions' = deletions + count

\* info.Size() of what os.Stat found (a directory's size is taken as 0)
StatSize(fl, path) == IF path \in DOMAIN fl THEN Len(fl[path].data) ELSE 0

FsUnchanged == UNCHANGED <<files, dirs, bucket>>
CountersUnchanged == UNCHANGED <<hits, misses, deletions>>
ServerUnchanged == UNCHANGED <<request, mu, received, archiveCalls, reported>>
ClientUnchanged == UNCHANGED <<backend, loop, proc, calls, crashes>> /\ ServerUnchanged

\* Get: s.Exists(ctx, key), and the miss it records
LocalGetExists(w) ==
    /\ AtLocal(w, "Get", "exists")
    /\ LET kind == StatKind(files, dirs, JoinBase(op[w].key))
       IN IF kind \in {"file", "dir"}
          THEN Goto(w, "open") /\ UNCHANGED misses
          ELSE IF kind = "enoent"
               THEN Return(w, [op[w] EXCEPT !.err = "ErrNotExist"]) /\ RecordMiss
               ELSE Return(w, [op[w] EXCEPT !.err = "stat failed"]) /\ UNCHANGED misses
    /\ UNCHANGED <<files, dirs, bucket, mutexes, hits, deletions, sizeGauge>>
    /\ ClientUnchanged

\* Get: os.Open(path), and the hit it records
LocalGetOpen(w) ==
    /\ AtLocal(w, "Get", "open")
    /\ LET path == JoinBase(op[w].key)
           kind == StatKind(files, dirs, path)
       IN IF kind \in {"file", "dir"}
          THEN /\ op' = [op EXCEPT ![w].pc = "size", ![w].ok = TRUE,
                                   ![w].data = IF kind = "file" THEN files[path].data ELSE <<>>]
               /\ RecordHit
          ELSE /\ Return(w, [op[w] EXCEPT !.err = "failed to open file"])
               /\ UNCHANGED hits
    /\ UNCHANGED <<files, dirs, bucket, mutexes, misses, deletions, sizeGauge>>
    /\ ClientUnchanged

\* Get: os.Stat(path) after the open, feeding the size gauge
LocalGetSize(w) ==
    /\ AtLocal(w, "Get", "size")
    /\ LET path == JoinBase(op[w].key)
       IN IF StatKind(files, dirs, path) \in {"file", "dir"}
          THEN UpdateSize(StatSize(files, path))
          ELSE UNCHANGED sizeGauge
    /\ Return(w, op[w])
    /\ FsUnchanged /\ CountersUnchanged /\ UNCHANGED mutexes
    /\ ClientUnchanged

\* an Exists that counts what it finds as a hit or a miss
LocalExistsCounting(w) ==
    /\ AtLocal(w, "Exists", "stat")
    /\ LET kind == StatKind(files, dirs, JoinBase(op[w].key))
       IN IF kind \in {"file", "dir"}
          THEN Return(w, [op[w] EXCEPT !.ok = TRUE]) /\ hits' = hits + 1 /\ UNCHANGED misses
          ELSE Return(w, [op[w] EXCEPT !.ok = FALSE]) /\ misses' = misses + 1 /\ UNCHANGED hits
    /\ FsUnchanged /\ UNCHANGED <<mutexes, sizeGauge, deletions>>
    /\ ClientUnchanged

\* Exists: os.Stat(path)
LocalExists(w) ==
    /\ AtLocal(w, "Exists", "stat")
    /\ LET kind == StatKind(files, dirs, JoinBase(op[w].key))
       IN IF kind \in {"file", "dir"} THEN Return(w, [op[w] EXCEPT !.ok = TRUE])
          ELSE IF kind = "enoent" THEN Return(w, [op[w] EXCEPT !.ok = FALSE])
          ELSE Return(w, [op[w] EXCEPT !.ok = FALSE, !.err = "stat failed"])
    /\ FsUnchanged /\ CountersUnchanged /\ UNCHANGED <<mutexes, sizeGauge>>
    /\ ClientUnchanged

\* a getMutex that stores a new mutex on every call
getMutexFresh(w) ==
    /\ AtLocal(w, "Put", "getmutex")
    /\ mutexes' = (op[w].key :> 0) @@ mutexes
    /\ Goto(w, "lock")
    /\ FsUnchanged /\ CountersUnchanged /\ UNCHANGED sizeGauge
    /\ ClientUnchanged

\* getMutex: s.mutexes.LoadOrStore(key, &sync.Mutex{})
getMutex(w) ==
    /\ AtLocal(w, "Put", "getmutex")
    /\ mutexes' = IF op[w].key \in DOMAIN mutexes THEN mutexes
                  ELSE (op[w].key :> 0) @@ mutexes
    /\ Goto(w, "lock")
    /\ FsUnchanged /\ CountersUnchanged /\ UNCHANGED sizeGauge
    /\ ClientUnchanged

\* a lock that does not wait for its holder
LocalPutLockFree(w) ==
    /\ AtLocal(w, "Put", "lock")
    /\ mutexes' = [mutexes EXCEPT ![op[w].key] = w]
    /\ Goto(w, "stat1")
    /\ FsUnchanged /\ CountersUnchanged /\ UNCHANGED sizeGauge
    /\ ClientUnchanged

\* Put: mutex.Lock()
LocalPutLock(w) ==
    /\ AtLocal(w, "Put", "lock")
    /\ mutexes[op[w].key] = 0
    /\ mutexes' = [mutexes EXCEPT ![op[w].key] = w]
    /\ Goto(w, "stat1")
    /\ FsUnchanged /\ CountersUnchanged /\ UNCHANGED sizeGauge
    /\ ClientUnchanged

\* Put: the first os.Stat; an existing file is left as it is
LocalPutStat1(w) ==
    /\ AtLocal(w, "Put", "stat1")
    /\ IF StatKind(files, dirs, JoinBase(op[w].key)) \in {"file", "dir"}
       THEN Return(w, op[w]) /\ Unlock(w)
       ELSE Goto(w, "stat2") /\ UNCHANGED mutexes
    /\ FsUnchanged /\ CountersUnchanged /\ UNCHANGED sizeGauge
    /\ ClientUnchanged

\* Put: the second os.Stat, for the size gauge
LocalPutStat2(w) ==
    /\ AtLocal(w, "Put", "stat2")
    /\ LET path == JoinBase(op[w].key)
       IN IF StatKind(files, dirs, path) \in {"file", "dir"}
          THEN UpdateSize(0 - StatSize(files, path))
          ELSE UNCHANGED sizeGauge
    /\ Goto(w, "mkdir")
    /\ FsUnchanged /\ CountersUnchanged /\ UNCHANGED mutexes
    /\ ClientUnchanged

\* Put: os.MkdirAll(filepath.Dir(path), 0755)
LocalPutMkdir(w) ==
    /\ AtLocal(w, "Put", "mkdir")
    /\ LET dir == ParentDir(JoinBase(op[w].key))
       IN IF MkdirAllOk(files, dir)
          THEN dirs' = MkdirAllDirs(dirs, dir) /\ Goto(w, "create") /\ UNCHANGED mutexes
          ELSE /\ UNCHANGED dirs
               /\ Return(w, [op[w] EXCEPT !.err = "failed to create directory"])
               /\ Unlock(w)
    /\ UNCHANGED <<files, bucket>> /\ CountersUnchanged /\ UNCHANGED sizeGauge
    /\ ClientUnchanged

\* Put: os.Create(path), which creates or truncates the destination itself
LocalPutCreate(w) ==
    /\ AtLocal(w, "Put", "create")
    /\ LET path == JoinBase(op[w].key)
       IN IF CreateOk(files, dirs, path)
          THEN /\ files' = (path :> [data |-> <<>>, want |-> op[w].payload, id |-> op[w].id])
                          @@ files
               /\ Goto(w, "copy") /\ UNCHANGED mutexes
          ELSE /\ UNCHANGED files
               /\ Return(w, [op[w] EXCEPT !.err = "failed to create file"])
               /\ Unlock(w)
    /\ UNCHANGED <<dirs, bucket>> /\ CountersUnchanged /\ UNCHANGED sizeGauge
    /\ ClientUnchanged

\* Put: io.Copy writes the next chunk into the open file
LocalPutWrite(w) ==
    /\ AtLocal(w, "Put", "copy")
    /\ op[w].n < Len(op[w].payload)
    /\ LET path == JoinBase(op[w].key)
       IN files' = IF path \in DOMAIN files
                   THEN [files EXCEPT ![path].data = Append(@, op[w].payload[op[w].n + 1])]
                   ELSE files
    /\ op' = [op EXCEPT ![w].n = @ + 1]
    /\ UNCHANGED <<dirs, bucket>> /\ CountersUnchanged /\ UNCHANGED <<mutexes, sizeGauge>>
    /\ ClientUnchanged

\* Put: io.Copy fails; os.Remove(path) cleans up
LocalPutWriteError(w) ==
    /\ AtLocal(w, "Put", "copy")
    /\ op[w].n < Len(op[w].payload)
    /\ LET path == JoinBase(op[w].key)
       IN files' = Restrict(files, DOMAIN files \ {path})
    /\ Return(w, [op[w] EXCEPT !.err = "failed to write file content"])
    /\ Unlock(w)
    /\ UNCHANGED <<dirs, bucket>> /\ CountersUnchanged /\ UNCHANGED sizeGauge
    /\ ClientUnchanged

\* Put: io.Copy is through; the gauge, f.Sync, and the deferred Close and Unlock
LocalPutDone(w) ==
    /\ AtLocal(w, "Put", "copy")
    /\ op[w].n = Len(op[w].payload)
    /\ UpdateSize(op[w].n)
    /\ Return(w, op[w])
    /\ Unlock(w)
    /\ FsUnchanged /\ CountersUnchanged
    /\ ClientUnchanged

\* DeleteByPrefix: os.Stat(searchPath)
LocalDeleteStat(w) ==
    /\ AtLocal(w, "DeleteByPrefix", "stat")
    /\ LET path == JoinBase(op[w].key)
           kind == StatKind(files, dirs, path)
       IN IF kind = "enoent" THEN Return(w, op[w])
          ELSE IF kind = "enotdir" THEN Return(w, [op[w] EXCEPT !.err = "error checking path"])
          ELSE IF kind = "file"
               THEN op' = [op EXCEPT ![w].pc = "remove", ![w].size = StatSize(files, path)]
               ELSE Goto(w, "walk")
    /\ FsUnchanged /\ CountersUnchanged /\ UNCHANGED <<mutexes, sizeGauge>>
    /\ ClientUnchanged

\* DeleteByPrefix: a single file, os.Remove(searchPath)
LocalDeleteRemove(w) ==
    /\ AtLocal(w, "DeleteByPrefix", "remove")
    /\ LET path == JoinBase(op[w].key)
       IN IF path \in DOMAIN files
          THEN /\ files' = Restrict(files, DOMAIN files \ {path})
               /\ UpdateSize(0 - op[w].size)
               /\ Return(w, [op[w] EXCEPT !.count = 1])
          ELSE /\ UNCHANGED <<files, sizeGauge>>
               /\ Return(w, [op[w] EXCEPT !.err = "error deleting file"])
    /\ UNCHANGED <<dirs, bucket>> /\ CountersUnchanged /\ UNCHANGED mutexes
    /\ ClientUnchanged

\* a walk that tallies the directories as well
LocalDeleteWalkAll(w) ==
    /\ AtLocal(w, "DeleteByPrefix", "walk")
    /\ LET path == JoinBase(op[w].key)
       IN IF path \in dirs
          THEN op' = [op EXCEPT ![w].pc = "removeall",
                                ![w].count = Cardinality(FilesUnder(files, path))
                                             + Cardinality(DirsUnder(dirs, path)),
                                ![w].size = SumSizes(files, FilesUnder(files, path))]
          ELSE Return(w, [op[w] EXCEPT !.err = "error walking directory"])
    /\ FsUnchanged /\ CountersUnchanged /\ UNCHANGED <<mutexes, sizeGauge>>
    /\ ClientUnchanged

\* DeleteByPrefix: filepath.Walk tallies the regular files and their sizes
LocalDeleteWalk(w) ==
    /\ AtLocal(w, "DeleteByPrefix", "walk")
    /\ LET path == JoinBase(op[w].key)
       IN IF path \in dirs
          THEN op' = [op EXCEPT ![w].pc = "removeall",
                                ![w].count = Cardinality(FilesUnder(files, path)),
                                ![w].size = SumSizes(files, FilesUnder(files, path))]
          ELSE Return(w, [op[w] EXCEPT !.err = "error walking directory"])
    /\ FsUnchanged /\ CountersUnchanged /\ UNCHANGED <<mutexes, sizeGauge>>
    /\ ClientUnchanged

\* DeleteByPrefix: os.RemoveAll(searchPath), then the gauge and the deletion counter
LocalDeleteRemoveAll(w) ==
    /\ AtLocal(w, "DeleteByPrefix", "removeall")
    /\ LET path == JoinBase(op[w].key)
       IN /\ files' = Restrict(files, DOMAIN files \ FilesUnder(files, path))
          /\ dirs' = dirs \ DirsUnder(dirs, path)
    /\ UpdateSize(0 - op[w].size)
    /\ RecordDeletion(op[w].count)
    /\ Return(w, op[w])
    /\ UNCHANGED <<bucket, hits, misses, mutexes>>
    /\ ClientUnchanged

\* DeleteByPrefix: os.Stat, os.Remove or filepath.Walk fails (permissions, I/O)
LocalDeleteFault(w) ==
    /\ backend = "local"
    /\ op[w].name = "DeleteByPrefix"
    /\ op[w].pc \in {"stat", "remove", "walk"}
    /\ Return(w, [op[w] EXCEPT !.err = "i/o error", !.count = 0])
    /\ FsUnchanged /\ CountersUnchanged /\ UNCHANGED <<mutexes, sizeGauge>>
    /\ ClientUnchanged

LocalStep(w) ==
    \/ LocalGetExists(w)
    \/ LocalGetOpen(w)
    \/ LocalGetSize(w)
    \/ getMutex(w)
    \/ LocalPutLock(w)
    \/ LocalPutStat1(w)
    \/ LocalPutStat2(w)
    \/ LocalPutMkdir(w)
    \/ LocalPutCreate(w)
    \/ LocalPutWrite(w)
    \/ LocalPutWriteError(w)
    \/ LocalPutDone(w)
    \/ LocalDeleteStat(w)
    \/ LocalDeleteRemove(w)
    \/ LocalDeleteWalk(w)
    \/ LocalDeleteRemoveAll(w)
    \/ LocalDeleteFault(w)

----------------------------------------------------------------------------
(* S3Storage, one action per S3 API call *)

\* the batch size of DeleteObjects
DeleteBatchSize == 1000

\* the objects ListObjectsV2 returns for Prefix: those whose key starts with it
S3Listed(bk, prefix) == {k \in DOMAIN bk : HasPrefix(k, prefix)}

\* objectIds[i:end], the next DeleteBatchSize identifiers
NextBatch(ids) ==
    IF Cardinality(ids) <= DeleteBatchSize THEN ids
    ELSE CHOOSE b \in SUBSET ids : Cardinality(b) = DeleteBatchSize

\* Get: s.Exists (HeadObject), and the miss it records
S3GetExists(w) ==
    /\ AtS3(w, "Get", "head")
    /\ IF op[w].key \in DOMAIN bucket
       THEN Goto(w, "getobject") /\ UNCHANGED misses
       ELSE Return(w, [op[w] EXCEPT !.err = "ErrNotExist"]) /\ RecordMiss
    /\ UNCHANGED <<files, dirs, bucket, mutexes, hits, deletions, sizeGauge>>
    /\ ClientUnchanged

\* Get: GetObject, the hit and the size gauge
S3GetObject(w) ==
    /\ AtS3(w, "Get", "getobject")
    /\ IF op[w].key \in DOMAIN bucket
       THEN /\ Return(w, [op[w] EXCEPT !.ok = TRUE, !.data = bucket[op[w].key].data])
            /\ RecordHit
            /\ UpdateSize(Len(bucket[op[w].key].data))
       ELSE /\ Return(w, [op[w] EXCEPT !.err = "failed to get object"])
            /\ UNCHANGED <<hits, sizeGauge>>
    /\ UNCHANGED <<files, dirs, bucket, mutexes, misses, deletions>>
    /\ ClientUnchanged

\* Exists: HeadObject
S3Exists(w) ==
    /\ AtS3(w, "Exists", "head")
    /\ Return(w, [op[w] EXCEPT !.ok = (op[w].key \in DOMAIN bucket)])
    /\ FsUnchanged /\ CountersUnchanged /\ UNCHANGED <<mutexes, sizeGauge>>
    /\ ClientUnchanged

\* Put: s.Exists (HeadObject)
S3PutExists(w) ==
    /\ AtS3(w, "Put", "head")
    /\ Goto(w, IF op[w].key \in DOMAIN bucket THEN "head2" ELSE "upload")
    /\ FsUnchanged /\ CountersUnchanged /\ UNCHANGED <<mutexes, sizeGauge>>
    /\ ClientUnchanged

\* Put: HeadObject of the object about to be replaced, for the size gauge
S3PutHeadOld(w) ==
    /\ AtS3(w, "Put", "head2")
    /\ IF op[w].key \in DOMAIN bucket
       THEN UpdateSize(0 - Len(bucket[op[w].key].data))
       ELSE UNCHANGED sizeGauge
    /\ Goto(w, "upload")
    /\ FsUnchanged /\ CountersUnchanged /\ UNCHANGED mutexes
    /\ ClientUnchanged

\* an upload that stores nothing
S3PutUploadLost(w) ==
    /\ AtS3(w, "Put", "upload")
    /\ IF Len(op[w].payload) > 1
       THEN Goto(w, "head3")
       ELSE Return(w, op[w])
    /\ FsUnchanged /\ CountersUnchanged /\ UNCHANGED <<mutexes, sizeGauge>>
    /\ ClientUnchanged

\* Put: uploader.Upload; the object appears whole, replacing any earlier one.
\* result.UploadID is set for a multipart upload (a body of more than one part)
S3PutUpload(w) ==
    /\ AtS3(w, "Put", "upload")
    /\ bucket' = (op[w].key :> [data |-> op[w].payload, want |-> op[w].payload,
                                id |-> op[w].id]) @@ bucket
    /\ IF Len(op[w].payload) > 1
       THEN Goto(w, "head3")
       ELSE Return(w, op[w])
    /\ UNCHANGED <<files, dirs>> /\ CountersUnchanged /\ UNCHANGED <<mutexes, sizeGauge>>
    /\ ClientUnchanged

\* Put: HeadObject after a multipart upload, for the size gauge
S3PutHeadNew(w) ==
    /\ AtS3(w, "Put", "head3")
    /\ IF op[w].key \in DOMAIN bucket
       THEN UpdateSize(Len(bucket[op[w].key].data))
       ELSE UNCHANGED sizeGauge
    /\ Return(w, op[w])
    /\ FsUnchanged /\ CountersUnchanged /\ UNCHANGED mutexes
    /\ ClientUnchanged

\* DeleteByPrefix: ListObjectsV2 collects the identifiers and their sizes
S3DeleteList(w) ==
    /\ AtS3(w, "DeleteByPrefix", "list")
    /\ LET ids == S3Listed(bucket, op[w].key)
       IN IF ids = {}
          THEN Return(w, op[w])
          ELSE op' = [op EXCEPT ![w].pc = "batch", ![w].ids = ids,
                                ![w].size = SumSizes(bucket, ids)]
    /\ FsUnchanged /\ CountersUnchanged /\ UNCHANGED <<mutexes, sizeGauge>>
    /\ ClientUnchanged

\* DeleteByPrefix: one DeleteObjects batch; after the last one, the gauge and
\* the deletion counter
S3DeleteBatch(w) ==
    /\ AtS3(w, "DeleteByPrefix", "batch")
    /\ LET batch == NextBatch(op[w].ids)
           left == op[w].ids \ batch
           count == op[w].count + Cardinality(batch)
       IN /\ bucket' = Restrict(bucket, DOMAIN bucket \ batch)
          /\ IF left = {}
             THEN /\ Return(w, [op[w] EXCEPT !.ids = left, !.count = count])
                  /\ IF op[w].size > 0 THEN UpdateSize(0 - op[w].size)
                                       ELSE UNCHANGED sizeGauge
                  /\ RecordDeletion(count)
             ELSE /\ op' = [op EXCEPT ![w].ids = left, ![w].count = count]
                  /\ UNCHANGED <<sizeGauge, deletions>>
    /\ UNCHANGED <<files, dirs, mutexes, hits, misses>>
    /\ ClientUnchanged

\* an S3 API call fails (transport, throttling, permissions)
S3ApiError(w) ==
    /\ backend = "s3"
    /\ op[w].pc \in {"head", "getobject", "upload", "list", "batch"}
    /\ Return(w, [op[w] EXCEPT !.err = "s3 api error", !.ok = FALSE])
    /\ FsUnchanged /\ CountersUnchanged /\ UNCHANGED <<mutexes, sizeGauge>>
    /\ ClientUnchanged

S3Step(w) ==
    \/ S3GetExists(w)
    \/ S3GetObject(w)
    \/ S3PutExists(w)
    \/ S3PutHeadOld(w)
    \/ S3PutUpload(w)
    \/ S3PutHeadNew(w)
    \/ S3DeleteList(w)
    \/ S3DeleteBatch(w)
    \/ S3ApiError(w)

----------------------------------------------------------------------------
(* Requests the clients send, and what the upstream registry may answer *)

\* for each position an accepted and a rejected identifier; ".." is a
\* registry name isValidRegistry accepts
Registries == {RegistryIO, DotDot, <<"a", " ", "b">>}
Namespaces == {Hashicorp, <<"-", "h", "c">>}
Providers == {Aws, Awscc, <<"A", "w", "s">>}
Versions == {V100, <<"1", ".", "0">>}
Platforms == {Linux, <<"p", "l", "a", "n", "9">>}
Arches == {Arm, <<"m", "i", "p", "s">>}

\* archive names that differ from the one archive in at most one component
ArchiveNames ==
    {ArchiveName(p, V100, Linux, Arm) : p \in {Aws, Awscc}}
    \cup {ArchiveName(Aws, v, Linux, Arm) : v \in Versions}
    \cup {ArchiveName(Aws, V100, o, Arm) : o \in Platforms}
    \cup {ArchiveName(Aws, V100, Linux, a) : a \in Arches}

\* a version with a dotted pre-release, which isValidVersion accepts
V100Rc1 == V100 \o <<"-", "r", "c", ".", "1">>

LastSegments ==
    {IndexJson, <<"r", "e", "a", "d", "m", "e", ".", "t", "x", "t">>, V100 \o DotJson \o DotJson,
     V100Rc1 \o DotJson}
    \cup Versions \cup {v \o DotJson : v \in Versions} \cup ArchiveNames

GetRequests ==
    {[method |-> "GET", segs |-> <<r, n, p, f>>] :
        r \in Registries, n \in Namespaces, p \in Providers, f \in LastSegments}

DeleteRequests ==
    LET full == {<<r, n, p, V100, ArchiveName(Aws, V100, Linux, Arm)>> :
                    r \in Registries, n \in Namespaces, p \in Providers}
    IN {[method |-> "DELETE", segs |-> SubSeq(s, 1, n)] : s \in full, n \in 1..5}

\* requests no route is registered for: a GET one segment short or one too
\* long, a DELETE six segments deep, and another method on a GET path
UnroutedRequests ==
    LET full == <<RegistryIO, Hashicorp, Aws, V100, ArchiveName(Aws, V100, Linux, Arm), IndexJson>>
    IN {[method |-> "GET", segs |-> SubSeq(full, 1, 3)],
        [method |-> "GET", segs |-> SubSeq(full, 1, 5)],
        [method |-> "DELETE", segs |-> full],
        [method |-> "POST", segs |-> SubSeq(full, 1, 4)]}

\* every request shape, one at a time
RouteRequests == GetRequests \cup DeleteRequests \cup UnroutedRequests

\* a request as its handler starts on it: the handler the router selects, the
\* parameters it is given, whether they pass the handler's validation, and the
\* cache key (binary GET) or prefix (DELETE) the handler forms
\* a handler head that lets every parameter pass
RoutedUnchecked(r) ==
    LET d == Dispatch(r.method, r.segs)
        p == d.params
    IN [method |-> r.method, segs |-> r.segs, handler |-> d.handler, params |-> p,
        valid |-> TRUE,
        key |-> IF d.handler = "DownloadProvider"
                THEN getCacheKey(p.registry, p.namespace, p.provider, p.version, p.os, p.arch)
                ELSE IF d.handler = "DeleteCache" THEN DeletePrefix(p) ELSE <<>>]
Routed(r) ==
    LET d == Dispatch(r.method, r.segs)
        p == d.params
    IN [method |-> r.method, segs |-> r.segs, handler |-> d.handler, params |-> p,
        valid |-> ValidParams(d.handler, p),
        key |-> IF d.handler = "DownloadProvider"
                THEN getCacheKey(p.registry, p.namespace, p.provider, p.version, p.os, p.arch)
                ELSE IF d.handler = "DeleteCache" THEN DeletePrefix(p) ELSE <<>>]
RouteTable == {Routed(r) : r \in RouteRequests}

\* the requests concurrent clients send: one archive, its index, and the
\* invalidation of its provider and of the archive itself
TheKey == getCacheKey(RegistryIO, Hashicorp, Aws, V100, Linux, Arm)
ServeTable ==
    {Routed(r) : r \in {[method |-> "GET", segs |-> <<RegistryIO, Hashicorp, Aws,
                                       ArchiveName(Aws, V100, Linux, Arm)>>],
     [method |-> "GET", segs |-> <<RegistryIO, Hashicorp, Aws, IndexJson>>],
     [method |-> "DELETE", segs |-> <<RegistryIO, Hashicorp, Aws>>],
     [method |-> "DELETE", segs |-> <<RegistryIO, Hashicorp, Aws, V100,
                                        ArchiveName(Aws, V100, Linux, Arm)>>]}}

----------------------------------------------------------------------------
(* Calling the store *)

\* archive bodies, as sequences of chunks
Payloads == {<<2>>} \cup {[i \in 1..n |-> i] : n \in 2..MaxChunks}

\* the entry stored under a key: a set with one element, or the empty set
EntryOf(k) ==
    IF backend = "local"
    THEN IF JoinBase(k) \in DOMAIN files THEN {files[JoinBase(k)]} ELSE {}
    ELSE IF k \in DOMAIN bucket THEN {bucket[k]} ELSE {}
Present(k) == EntryOf(k) # {}
\* each key with the path the local store keeps it at
KeyPaths == {<<k, JoinBase(k)>> : k \in Keys}
\* the entries in the store, each as <<key, id>>
Snapshot ==
    IF backend = "local"
    THEN {<<kp[1], files[kp[2]].id>> : kp \in {x \in KeyPaths : x[2] \in DOMAIN files}}
    ELSE {<<k, bucket[k].id>> : k \in DOMAIN bucket}

\* where each operation starts
LocalEntry == [Get |-> "exists", Exists |-> "stat", Put |-> "getmutex", DeleteByPrefix |-> "stat"]
S3Entry == [Get |-> "head", Exists |-> "head", Put |-> "head", DeleteByPrefix |-> "list"]
Entry(nm) == IF backend = "local" THEN LocalEntry[nm] ELSE S3Entry[nm]

\* a key that DeleteByPrefix(p) is to remove: p itself, or p followed by "/"
Covered(k, p) == k = p \/ HasPrefix(k, p \o Slash)

\* a wrapper that forgets the key on the way in
metricsWrapperNoKey(nm, key, payload) == <<nm, <<>>, payload>>

\* metricsWrapper: each method hands its arguments to the same method of the
\* store it wraps
metricsWrapper(nm, key, payload) == <<nm, key, payload>>

\* the caller invokes the store it was given, which is the wrapper; asked is
\* what the caller passed
Call(w, nm, key, payload) ==
    LET inner == metricsWrapper(nm, key, payload)
    IN op' = [op EXCEPT ![w] = [NoOp EXCEPT !.name = inner[1], !.pc = Entry(inner[1]),
                                            !.key = inner[2], !.payload = inner[3],
                                            !.snap = Snapshot, !.id = calls + 1,
                                            !.asked = <<nm, key, payload>>]]

----------------------------------------------------------------------------
(* The upstream registry, as the handlers see it *)

HexDigits == <<"0", "1", "2", "3", "4", "5", "6", "7", "8", "9", "a", "b", "c", "d", "e", "f">>

\* hex.EncodeToString of a one-byte digest
EncodeToString(n) == <<HexDigits[(n \div 16) + 1], HexDigits[(n % 16) + 1]>>

\* sha256 over the chunks read, narrowed to one byte
RECURSIVE Sum256(_, _)
Sum256(acc, data) ==
    IF data = <<>> THEN acc ELSE Sum256((acc * 31 + Head(data)) % 256, Tail(data))
Sha256(data) == Sum256(7, data)

ArchiveURL == <<"u">>
ReportedSums == {<<>>} \cup {EncodeToString(Sha256(b)) : b \in Payloads}

\* answers to GET /v1/providers/N/V/v/download/os/arch
InfoOutcomes ==
    {[kind |-> k, url |-> <<>>, sha |-> <<>>] : k \in {"neterr", "non200", "badjson"}}
    \cup {[kind |-> "ok", url |-> u, sha |-> s] : u \in {<<>>, ArchiveURL}, s \in ReportedSums}

\* answers to the archive download
ArchiveOutcomes ==
    {[kind |-> k, body |-> <<>>] : k \in {"neterr", "non200", "readerr"}}
    \cup {[kind |-> "ok", body |-> b] : b \in Payloads}

\* answers to GET /v1/providers/N/V/versions
V200 == <<"2", ".", "0", ".", "0">>
Darwin == <<"d", "a", "r", "w", "i", "n">>
Amd64 == <<"a", "m", "d", "6", "4">>
\* an architecture upstream registries list and validArches does not hold
S390x == <<"s", "3", "9", "0", "x">>
\* the versions an upstream knows of a provider, each listed at most once
UpstreamVersions ==
    {[version |-> V100, platforms |-> {<<Linux, Arm>>, <<Darwin, Amd64>>, <<Linux, S390x>>}],
     [version |-> V200, platforms |-> {<<Linux, Arm>>}]}
VersionsOutcomes ==
    {[kind |-> k, versions |-> {}] : k \in {"neterr", "non200", "badjson"}}
    \cup {[kind |-> "ok", versions |-> vs] : vs \in SUBSET UpstreamVersions}

----------------------------------------------------------------------------
(* The HTTP handlers (internal/handler) *)

MaxRequests == 3
MaxRouteRequests == 2

NoRequest ==
    [pc |-> "idle", method |-> "", segs |-> <<>>, handler |-> "", params |-> NoParams,
     key |-> <<>>, sha |-> <<>>, status |-> 0, error |-> "", body |-> <<>>, json |-> {},
     deleted |-> 0, store |-> 0, upstream |-> 0, missed |-> FALSE, clean |-> TRUE,
     fault |-> "", listed |-> {}, message |-> "", seq |-> 0, quiet |-> FALSE, empty |-> FALSE,
     cancelled |-> FALSE]
\* fault: what went wrong upstream while the request was served ("" when
\* nothing did); listed: the versions the upstream listed for it; for a DELETE
\* and a binary GET, seq: its number among the requests received, quiet: no
\* other request was being served when it arrived, empty: no stored key began
\* with the DELETE's prefix then, the GET's key was absent then;
\* cancelled: the client has gone and c.Request.Context() is cancelled

\* a store error that is not the miss
StoreFault(w) == op[w].err \notin {"nil", "ErrNotExist"}

\* the router and the head of the handler it selects, up to the handler's
\* first I/O; e is the request as routed
Receive(w, e) ==
    /\ request[w].pc \in {"idle", "done"}
    /\ received' = received + 1
    /\ LET r == [NoRequest EXCEPT !.method = e.method, !.segs = e.segs,
                                  !.handler = e.handler, !.params = e.params]
           answer(status, error) ==
               /\ request' = [request EXCEPT ![w] = [r EXCEPT !.pc = "done", !.status = status,
                                                              !.error = error]]
               /\ UNCHANGED <<op, calls>>
       IN CASE e.handler = "NoRoute" -> answer(404, "Not Found")
            [] e.handler = "InvalidFile" -> answer(400, "invalid file format")
            [] e.handler = "Unsupported" -> answer(400, "unsupported request")
            [] e.handler \in {"GetProviderIndex", "GetProviderVersion"} ->
                 IF ~e.valid
                 THEN answer(400, "invalid parameters")
                 ELSE /\ request' = [request EXCEPT ![w] = [r EXCEPT !.pc = "versions"]]
                      /\ UNCHANGED <<op, calls>>
            [] e.handler = "DownloadProvider" ->
                 IF ~e.valid
                 THEN answer(400, "invalid parameters")
                 ELSE /\ request' = [request EXCEPT ![w] =
                             [r EXCEPT !.pc = "get", !.key = e.key, !.store = 1,
                                       !.seq = received + 1,
                                       !.quiet = \A v \in Workers \ {w} :
                                                     request[v].pc \in {"idle", "done"},
                                       !.empty = ~Present(e.key)]]
                      /\ Call(w, "Get", e.key, <<>>)
                      /\ calls' = calls + 1
            [] e.handler = "DeleteCache" ->
                 /\ request' = [request EXCEPT ![w] =
                       [r EXCEPT !.pc = "delete", !.key = e.key, !.store = 1,
                                 !.seq = received + 1,
                                 !.quiet = \A v \in Workers \ {w} :
                                               request[v].pc \in {"idle", "done"},
                                 !.empty = \A s \in Snapshot : ~HasPrefix(s[1], e.key)]]
                 /\ Call(w, "DeleteByPrefix", e.key, <<>>)
                 /\ calls' = calls + 1
    /\ UNCHANGED <<backend, loop, proc, files, dirs, bucket, mutexes, hits, misses, deletions, sizeGauge,
                   crashes, mu, archiveCalls, reported>>

HandlerUnchanged ==
    UNCHANGED <<backend, loop, proc, files, dirs, bucket, mutexes, hits, misses, deletions, sizeGauge,
                crashes, received>>

\* an index without versions
VersionsMapEmpty(versions) == {}
\* GetProviderIndex: versionsMap, the version strings as keys of empty objects
VersionsMap(versions) == {v.version : v \in versions}

\* a manifest without archives
ArchivesEmpty(provider, version, platforms) == {}
\* GetProviderVersion: response.Archives, key "<os>_<arch>" to the archive's
\* relative url
Archives(provider, version, platforms) ==
    {<<pl[1] \o Underscore \o pl[2], ArchiveName(provider, version, pl[1], pl[2])>> :
        pl \in platforms}

\* GetProviderIndex and GetProviderVersion: the versions listing and the answer
FetchVersions(w) ==
    /\ request[w].pc = "versions"
    /\ \E o \in VersionsOutcomes :
          LET r == [request[w] EXCEPT !.upstream = @ + 1, !.clean = (o.kind = "ok"), !.pc = "done",
                                      !.fault = IF o.kind = "ok" THEN "" ELSE "versions " \o o.kind,
                                      !.listed = o.versions]
              found == {v \in o.versions : v.version = r.params.version}
          IN request' = [request EXCEPT ![w] =
               CASE o.kind = "neterr" ->
                      [r EXCEPT !.status = 502, !.error = "failed to fetch provider versions"]
                 [] o.kind = "non200" ->
                      [r EXCEPT !.status = 502, !.error = "failed to fetch provider versions"]
                 [] o.kind = "badjson" ->
                      [r EXCEPT !.status = 500, !.error = "failed to parse provider versions"]
                 [] o.kind = "ok" /\ r.handler = "GetProviderIndex" ->
                      [r EXCEPT !.status = 200, !.json = VersionsMap(o.versions)]
                 [] o.kind = "ok" /\ r.handler = "GetProviderVersion" /\ found = {} ->
                      [r EXCEPT !.status = 404, !.error = "version not found"]
                 [] o.kind = "ok" /\ r.handler = "GetProviderVersion" /\ found # {} ->
                      [r EXCEPT !.status = 200,
                                !.json = UNION {Archives(r.params.provider, r.params.version,
                                                         v.platforms) : v \in found}]]
    /\ UNCHANGED <<op, calls, mu, archiveCalls, reported>>
    /\ HandlerUnchanged

\* a handler that takes every error of storage.Get for a miss
ServeFromCacheLenient(w) ==
    /\ request[w].pc = "get"
    /\ op[w].pc = "ret"
    /\ request' = [request EXCEPT ![w] =
          IF op[w].err = "nil"
          THEN [@ EXCEPT !.pc = "done", !.status = 200, !.body = op[w].data]
          ELSE [@ EXCEPT !.pc = "info", !.missed = TRUE]]
    /\ op' = [op EXCEPT ![w] = NoOp]
    /\ UNCHANGED <<calls, mu, archiveCalls, reported>>
    /\ HandlerUnchanged

\* DownloadProvider: the answer of the first storage.Get
ServeFromCache(w) ==
    /\ request[w].pc = "get"
    /\ op[w].pc = "ret"
    /\ request' = [request EXCEPT ![w] =
          IF op[w].err = "nil"
          THEN [@ EXCEPT !.pc = "done", !.status = 200, !.body = op[w].data]
          ELSE IF op[w].err = "ErrNotExist"
          THEN [@ EXCEPT !.pc = "info", !.missed = TRUE]
          ELSE [@ EXCEPT !.pc = "done", !.status = 500, !.clean = FALSE,
                         !.error = "failed to get file from cache"]]
    /\ op' = [op EXCEPT ![w] = NoOp]
    /\ UNCHANGED <<calls, mu, archiveCalls, reported>>
    /\ HandlerUnchanged

\* a handler that accepts a descriptor without looking at its fields
FetchDownloadInfoUnchecked(w) ==
    /\ request[w].pc = "info"
    /\ \E o \in InfoOutcomes :
          LET r == [request[w] EXCEPT !.upstream = @ + 1]
              failed(status, error) ==
                  [r EXCEPT !.pc = "done", !.status = status, !.error = error, !.clean = FALSE,
                            !.fault = "info " \o o.kind]
          IN request' = [request EXCEPT ![w] =
               CASE o.kind = "neterr" -> failed(502, "failed to fetch download info")
                 [] o.kind = "non200" -> failed(502, "failed to fetch download info")
                 [] o.kind = "badjson" -> failed(500, "failed to parse download info")
                 [] OTHER -> [r EXCEPT !.pc = "lock", !.sha = o.sha]]
    /\ UNCHANGED <<op, calls, mu, archiveCalls, reported>>
    /\ HandlerUnchanged

\* DownloadProvider: the download descriptor asked of the upstream
FetchDownloadInfo(w) ==
    /\ request[w].pc = "info"
    /\ \E o \in InfoOutcomes :
          LET r == [request[w] EXCEPT !.upstream = @ + 1]
              failed(status, error) ==
                  [r EXCEPT !.pc = "done", !.status = status, !.error = error, !.clean = FALSE,
                            !.fault = IF o.kind = "ok" THEN "info incomplete"
                                      ELSE "info " \o o.kind]
          IN request' = [request EXCEPT ![w] =
               CASE o.kind = "neterr" -> failed(502, "failed to fetch download info")
                 [] o.kind = "non200" -> failed(502, "failed to fetch download info")
                 [] o.kind = "badjson" -> failed(500, "failed to parse download info")
                 [] o.kind = "ok" /\ (o.url = <<>> \/ o.sha = <<>>) ->
                      failed(500, "invalid download information")
                 [] OTHER -> [r EXCEPT !.pc = "lock", !.sha = o.sha]]
    /\ UNCHANGED <<op, calls, mu, archiveCalls, reported>>
    /\ HandlerUnchanged

\* an install block entered without waiting for its holder to leave
AcquireInstallLockFree(w) ==
    /\ request[w].pc = "lock"
    /\ mu' = w
    /\ request' = [request EXCEPT ![w].pc = "download"]
    /\ UNCHANGED <<op, calls, archiveCalls, reported>>
    /\ HandlerUnchanged

\* downloadFile: h.mu.Lock()
AcquireInstallLock(w) ==
    /\ request[w].pc = "lock"
    /\ mu = 0
    /\ mu' = w
    /\ request' = [request EXCEPT ![w].pc = "download"]
    /\ UNCHANGED <<op, calls, archiveCalls, reported>>
    /\ HandlerUnchanged

\* a download that is never verified
ChecksumSkipped(expectedSHA256, data) == TRUE

\* downloadFile: "Verify the checksum if provided"
ChecksumOk(expectedSHA256, data) ==
    expectedSHA256 # <<>> => EncodeToString(Sha256(data)) = expectedSHA256

\* a downloadFile that returns its errors without h.mu.Unlock
downloadFileKeepLock(w) ==
    /\ request[w].pc = "download"
    /\ archiveCalls' = archiveCalls + 1
    /\ \E o \in ArchiveOutcomes :
          LET expectedSHA256 == request[w].sha
              r == [request[w] EXCEPT
                      !.upstream = @ + 1,
                      !.fault = IF o.kind # "ok" THEN "archive " \o o.kind
                                ELSE IF EncodeToString(Sha256(o.body)) # expectedSHA256
                                THEN "archive mismatch" ELSE ""]
          IN IF o.kind # "ok" \/ ~ChecksumOk(expectedSHA256, o.body)
             THEN /\ request' = [request EXCEPT ![w] =
                        [r EXCEPT !.pc = "done", !.status = 500, !.clean = FALSE,
                                  !.error = "failed to download or verify provider binary"]]
                  /\ UNCHANGED mu
                  /\ UNCHANGED <<op, calls, reported>>
             ELSE /\ request' = [request EXCEPT ![w] = [r EXCEPT !.pc = "put", !.store = @ + 1]]
                  /\ Call(w, "Put", r.key, o.body)
                  /\ calls' = calls + 1
                  /\ reported' = reported \cup {<<r.key, expectedSHA256>>}
                  /\ UNCHANGED mu
    /\ HandlerUnchanged

\* downloadFile: the archive is fetched into memory and hashed; when the
\* digest agrees storage.Put is called
downloadFile(w) ==
    /\ request[w].pc = "download"
    /\ archiveCalls' = archiveCalls + 1
    /\ \E o \in ArchiveOutcomes :
          LET expectedSHA256 == request[w].sha
              r == [request[w] EXCEPT
                      !.upstream = @ + 1,
                      !.fault = IF o.kind # "ok" THEN "archive " \o o.kind
                                ELSE IF EncodeToString(Sha256(o.body)) # expectedSHA256
                                THEN "archive mismatch" ELSE ""]
          IN IF o.kind # "ok" \/ ~ChecksumOk(expectedSHA256, o.body)
             THEN /\ request' = [request EXCEPT ![w] =
                        [r EXCEPT !.pc = "done", !.status = 500, !.clean = FALSE,
                                  !.error = "failed to download or verify provider binary"]]
                  /\ mu' = 0
                  /\ UNCHANGED <<op, calls, reported>>
             ELSE /\ request' = [request EXCEPT ![w] = [r EXCEPT !.pc = "put", !.store = @ + 1]]
                  /\ Call(w, "Put", r.key, o.body)
                  /\ calls' = calls + 1
                  /\ reported' = reported \cup {<<r.key, expectedSHA256>>}
                  /\ UNCHANGED mu
    /\ HandlerUnchanged

\* downloadFile returns (h.mu.Unlock), and DownloadProvider opens the entry again
Reopen(w) ==
    /\ request[w].pc = "put"
    /\ op[w].pc = "ret"
    /\ mu' = 0
    /\ IF op[w].err # "nil"
       THEN /\ request' = [request EXCEPT ![w] =
                  [@ EXCEPT !.pc = "done", !.status = 500, !.clean = FALSE,
                            !.error = "failed to download or verify provider binary"]]
            /\ op' = [op EXCEPT ![w] = NoOp]
            /\ UNCHANGED calls
       ELSE /\ request' = [request EXCEPT ![w] = [@ EXCEPT !.pc = "reopen", !.store = @ + 1]]
            /\ Call(w, "Get", request[w].key, <<>>)
            /\ calls' = calls + 1
    /\ UNCHANGED <<archiveCalls, reported>>
    /\ HandlerUnchanged

\* DownloadProvider: the installed entry is sent to the client
ServeInstalled(w) ==
    /\ request[w].pc = "reopen"
    /\ op[w].pc = "ret"
    /\ request' = [request EXCEPT ![w] =
          IF op[w].err = "nil"
          THEN [@ EXCEPT !.pc = "done", !.status = 200, !.body = op[w].data]
          ELSE [@ EXCEPT !.pc = "done", !.status = 500, !.clean = @ /\ ~StoreFault(w),
                         !.error = "error retrieving file from storage"]]
    /\ op' = [op EXCEPT ![w] = NoOp]
    /\ UNCHANGED <<calls, mu, archiveCalls, reported>>
    /\ HandlerUnchanged

\* DeleteCache: the answer of storage.DeleteByPrefix
DeleteCache(w) ==
    /\ request[w].pc = "delete"
    /\ op[w].pc = "ret"
    /\ request' = [request EXCEPT ![w] =
          IF op[w].err # "nil"
          THEN [@ EXCEPT !.pc = "done", !.status = 500, !.clean = FALSE,
                         !.error = "Failed to delete cache"]
          ELSE [@ EXCEPT !.pc = "done", !.status = 200, !.deleted = op[w].count,
                         !.message = "Cache cleared successfully"]]
    /\ op' = [op EXCEPT ![w] = NoOp]
    /\ UNCHANGED <<calls, mu, archiveCalls, reported>>
    /\ HandlerUnchanged

\* the pcs at which an upstream call of the request is pending or in flight
UpstreamPcs == {"versions", "info", "lock", "download"}

\* the client disconnects: the context of the inbound request is cancelled.
\* The upstream requests are built with http.NewRequest and
\* context.Background(), so nothing in the handler observes it
Cancel(w) ==
    /\ request[w].pc \in UpstreamPcs
    /\ ~request[w].cancelled
    /\ request' = [request EXCEPT ![w].cancelled = TRUE]
    /\ UNCHANGED <<op, calls, mu, archiveCalls, reported>>
    /\ HandlerUnchanged

HandlerStep(w) ==
    \/ FetchVersions(w)
    \/ ServeFromCache(w)
    \/ FetchDownloadInfo(w)
    \/ AcquireInstallLock(w)
    \/ downloadFile(w)
    \/ Reopen(w)
    \/ ServeInstalled(w)
    \/ DeleteCache(w)

----------------------------------------------------------------------------
(* The store driven directly by concurrent callers *)

StoreCall(w) ==
    /\ op[w].name = "none"
    /\ calls + crashes < MaxCalls
    /\ calls' = calls + 1
    /\ \/ \E k \in StoreKeys : Call(w, "Get", k, <<>>)
       \/ \E k \in StoreKeys : Call(w, "Exists", k, <<>>)
       \/ \E k \in StoreKeys, b \in Payloads : Call(w, "Put", k, b)
       \/ \E p \in StorePrefixes : Call(w, "DeleteByPrefix", p, <<>>)
    /\ UNCHANGED <<backend, loop, proc, files, dirs, bucket, mutexes, hits, misses, deletions, sizeGauge, crashes>>
    /\ ServerUnchanged

StoreReturn(w) ==
    /\ op[w].pc = "ret"
    /\ op' = [op EXCEPT ![w] = NoOp]
    /\ UNCHANGED <<backend, loop, proc, files, dirs, bucket, mutexes, hits, misses, deletions, sizeGauge, calls, crashes>>
    /\ ServerUnchanged

\* the process dies and is started again: memory is lost, the disk is kept
Crash ==
    /\ crashes < MaxCrashes
    /\ calls + crashes < MaxCalls
    /\ \E w \in Workers : op[w].name # "none"
    /\ crashes' = crashes + 1
    /\ op' = [w \in Workers |-> NoOp]
    /\ mutexes' = [k \in {} |-> 0]
    /\ hits' = 0 /\ misses' = 0 /\ deletions' = 0 /\ sizeGauge' = 0
    /\ UNCHANGED <<backend, loop, proc, files, dirs, bucket, calls>>
    /\ ServerUnchanged

----------------------------------------------------------------------------
(* S3Storage.DeleteByPrefix seen by index (part_006:176-258): the length of
   objectIds is the input, the batches are the slices objectIds[i:end] *)

\* the longest listing the loop is run on
MaxListed == 2500

NoLoop == [pc |-> "idle", n |-> 0, totalSize |-> 0, i |-> 0, deletedCount |-> 0,
           batches |-> <<>>, failed |-> 0, ret |-> 0, err |-> "nil"]

LoopFrame ==
    UNCHANGED <<backend, files, dirs, bucket, mutexes, hits, misses, op, calls, crashes,
                request, mu, received, archiveCalls, reported, proc>>

\* a slice bound that is not clamped to len(objectIds)
BatchEndUnclamped(i, n) == i + DeleteBatchSize

\* end := i + 1000; if end > len(objectIds) { end = len(objectIds) }
BatchEnd(i, n) == IF i + DeleteBatchSize > n THEN n ELSE i + DeleteBatchSize

\* the ListObjectsV2 pages: n identifiers, each object of size 0 or of size 1;
\* an empty listing returns 0 and no error
ListObjects ==
    /\ backend = "s3"
    /\ loop.pc = "idle"
    /\ \E n \in 0..MaxListed, size \in 0..1 :
          loop' = IF n = 0
                  THEN [loop EXCEPT !.pc = "done", !.ret = 0]
                  ELSE [loop EXCEPT !.pc = "batch", !.n = n, !.totalSize = n * size]
    /\ UNCHANGED <<deletions, sizeGauge>>
    /\ LoopFrame

\* ListObjectsV2 fails: return deletedCount, "failed to list objects"
ListObjectsFails ==
    /\ backend = "s3"
    /\ loop.pc = "idle"
    /\ loop' = [loop EXCEPT !.pc = "done", !.ret = loop.deletedCount,
                            !.err = "failed to list objects"]
    /\ UNCHANGED <<deletions, sizeGauge>>
    /\ LoopFrame

\* one pass of the batch loop with a DeleteObjects that succeeds; after the
\* last pass the size gauge, the deletion counter and the return
DeleteObjects ==
    /\ backend = "s3"
    /\ loop.pc = "batch"
    /\ LET end == BatchEnd(loop.i, loop.n)
           deletedCount == loop.deletedCount + (end - loop.i)
           i == loop.i + DeleteBatchSize
       IN IF i < loop.n
          THEN /\ loop' = [loop EXCEPT !.i = i, !.deletedCount = deletedCount,
                                       !.batches = Append(loop.batches, <<loop.i, end>>)]
               /\ UNCHANGED <<deletions, sizeGauge>>
          ELSE /\ loop' = [loop EXCEPT !.pc = "done", !.i = i, !.deletedCount = deletedCount,
                                       !.batches = Append(loop.batches, <<loop.i, end>>),
                                       !.ret = deletedCount]
               /\ IF loop.totalSize > 0 THEN UpdateSize(0 - loop.totalSize)
                                        ELSE UNCHANGED sizeGauge
               /\ RecordDeletion(deletedCount)
    /\ LoopFrame

\* one pass of the batch loop with a DeleteObjects that fails: return
\* deletedCount, "failed to delete objects"
DeleteObjectsFails ==
    /\ backend = "s3"
    /\ loop.pc = "batch"
    /\ LET end == BatchEnd(loop.i, loop.n)
       IN loop' = [loop EXCEPT !.pc = "done",
                               !.batches = Append(loop.batches, <<loop.i, end>>),
                               !.failed = Len(loop.batches) + 1,
                               !.ret = loop.deletedCount,
                               !.err = "failed to delete objects"]
    /\ UNCHANGED <<deletions, sizeGauge>>
    /\ LoopFrame

----------------------------------------------------------------------------
(* main() from the signal to its return (cmd/server/main.go:80-134) *)

\* the two http.Server values: srv and metricsSrv
Listeners == {"srv", "metricsSrv"}

\* 5*time.Second, in seconds
ShutdownTimeout == 5

\* the most requests one listener has in flight
MaxInflight == 2

\* a listener: state is "listening", then "spawned" (its shutdown goroutine
\* exists), "draining" (inside Shutdown), "returned" and "sent"; left is the
\* time left to the deadline of the context Shutdown was given
Listening == [state |-> "listening", inflight |-> 0, deadline |-> 0, left |-> 0,
              res |-> "none"]

Serving == [pc |-> "serving", l |-> [s \in Listeners |-> Listening], ch |-> 0, got |-> 0]

ProcFrame == UNCHANGED <<cacheVars, loop>>

\* a listener accepts a request
Accept(s) ==
    /\ proc.pc # "exited"
    /\ proc.l[s].state \in {"listening", "spawned"}
    /\ proc.l[s].inflight < MaxInflight
    /\ proc' = [proc EXCEPT !.l[s].inflight = @ + 1]
    /\ ProcFrame

\* a handler returns and its connection becomes idle
Finish(s) ==
    /\ proc.pc # "exited"
    /\ proc.l[s].inflight > 0
    /\ proc' = [proc EXCEPT !.l[s].inflight = @ - 1]
    /\ ProcFrame

\* <-ctx.Done(): SIGINT or SIGTERM has been received; stop()
Signal ==
    /\ proc.pc = "serving"
    /\ proc' = [proc EXCEPT !.pc = "signalled"]
    /\ ProcFrame

\* shutdownComplete := make(chan struct{}, 2) and the two go statements
Spawn ==
    /\ proc.pc = "signalled"
    /\ proc' = [proc EXCEPT !.pc = "waiting",
                            !.l = [s \in Listeners |-> [proc.l[s] EXCEPT !.state = "spawned"]]]
    /\ ProcFrame

\* context.WithTimeout(context.Background(), 5*time.Second); Shutdown(ctx)
\* closes the listener and starts to wait for the connections to be idle
ShutdownCall(s) ==
    /\ proc.pc # "exited"
    /\ proc.l[s].state = "spawned"
    /\ proc' = [proc EXCEPT !.l[s].state = "draining", !.l[s].deadline = ShutdownTimeout,
                            !.l[s].left = ShutdownTimeout]
    /\ ProcFrame

\* a second passes, for every context at once
Tick ==
    /\ proc.pc # "exited"
    /\ \E s \in Listeners : proc.l[s].state = "draining" /\ proc.l[s].left > 0
    /\ proc' = [proc EXCEPT !.l = [s \in Listeners |->
                    IF proc.l[s].state = "draining" /\ proc.l[s].left > 0
                    THEN [proc.l[s] EXCEPT !.left = @ - 1]
                    ELSE proc.l[s]]]
    /\ ProcFrame

\* Shutdown returns: nil when every connection is idle, ctx.Err() at the deadline
ShutdownReturn(s) ==
    /\ proc.pc # "exited"
    /\ proc.l[s].state = "draining"
    /\ \/ /\ proc.l[s].inflight = 0
          /\ proc' = [proc EXCEPT !.l[s].state = "returned", !.l[s].res = "nil"]
       \/ /\ proc.l[s].left = 0
          /\ proc' = [proc EXCEPT !.l[s].state = "returned",
                                  !.l[s].res = "context deadline exceeded"]
    /\ ProcFrame

\* shutdownComplete <- struct{}{} (the channel's buffer holds both)
Send(s) ==
    /\ proc.pc # "exited"
    /\ proc.l[s].state = "returned"
    /\ proc.ch < Cardinality(Listeners)
    /\ proc' = [proc EXCEPT !.l[s].state = "sent", !.ch = @ + 1]
    /\ ProcFrame

\* a main that leaves its loop after the first receive
LoopDoneEarly(got) == got >= 1

\* for i := 0; i < 2; i++: the loop's condition fails
LoopDone(got) == got >= 2

\* <-shutdownComplete
MainReceive ==
    /\ proc.pc = "waiting"
    /\ ~LoopDone(proc.got)
    /\ proc.ch > 0
    /\ proc' = [proc EXCEPT !.ch = @ - 1, !.got = @ + 1]
    /\ ProcFrame

\* "Server exiting" and the return of main: the process is gone and with it
\* the requests still in flight
Exit ==
    /\ proc.pc = "waiting"
    /\ LoopDone(proc.got)
    /\ proc' = [proc EXCEPT !.pc = "exited"]
    /\ ProcFrame

----------------------------------------------------------------------------

Init ==
    /\ backend \in {"local", "s3"}
    /\ bucket = [k \in {} |-> [data |-> <<>>, want |-> <<>>, id |-> 0]]
    /\ files = [p \in {} |-> [data |-> <<>>, want |-> <<>>, id |-> 0]]
    /\ dirs = {SubSeq(BaseDir, 1, n) : n \in 0..Len(BaseDir)}
    /\ mutexes = [k \in {} |-> 0]
    /\ hits = 0 /\ misses = 0 /\ deletions = 0 /\ sizeGauge = 0
    /\ op = [w \in Workers |-> NoOp]
    /\ calls = 0
    /\ crashes = 0
    /\ request = [w \in Workers |-> NoRequest]
    /\ mu = 0
    /\ received = 0
    /\ archiveCalls = 0
    /\ reported = {}
    /\ loop = NoLoop
    /\ proc = Serving

StoreNext ==
    \/ \E w \in Workers : StoreCall(w)
    \/ \E w \in Workers : LocalStep(w)
    \/ \E w \in Workers : S3Step(w)
    \/ \E w \in Workers : LocalExists(w)
    \/ \E w \in Workers : S3Exists(w)
    \/ \E w \in Workers : StoreReturn(w)
    \/ Crash

SpecStore == Init /\ [][StoreNext]_vars

----------------------------------------------------------------------------
(* The server: concurrent clients, and every request shape one at a time *)

Next ==
    \/ \E w \in Workers, e \in ServeTable : received < MaxRequests /\ Receive(w, e)
    \/ \E w \in Workers : HandlerStep(w)
    \/ \E w \in Workers : LocalStep(w)
    \/ \E w \in Workers : S3Step(w)

Spec == Init /\ [][Next]_vars

RouteInit == Init /\ backend = "local"

RouteNext ==
    \/ \E e \in RouteTable : received < MaxRouteRequests /\ Receive(1, e)
    \/ HandlerStep(1)
    \/ LocalStep(1)
    \/ Cancel(1)

SpecRoute == RouteInit /\ [][RouteNext]_vars

\* concurrent binary GETs for two providers and DELETEs of a provider and of
\* an archive, on the local store
MaxInstallRequests == 2
InstallTable ==
    {Routed(r) : r \in {[method |-> "GET", segs |-> <<RegistryIO, Hashicorp, Aws,
                                       ArchiveName(Aws, V100, Linux, Arm)>>],
     [method |-> "GET", segs |-> <<RegistryIO, Hashicorp, Awscc,
                                   ArchiveName(Awscc, V100, Linux, Arm)>>],
     [method |-> "DELETE", segs |-> <<RegistryIO, Hashicorp, Aws>>],
     [method |-> "DELETE", segs |-> <<RegistryIO, Hashicorp, Aws, V100,
                                        ArchiveName(Aws, V100, Linux, Arm)>>]}}

\* the steps of DownloadProvider and DeleteCache
InstallStep(w) ==
    \/ ServeFromCache(w)
    \/ FetchDownloadInfo(w)
    \/ AcquireInstallLock(w)
    \/ downloadFile(w)
    \/ Reopen(w)
    \/ ServeInstalled(w)
    \/ DeleteCache(w)

InstallNext ==
    \/ \E w \in Workers, e \in InstallTable : received < MaxInstallRequests /\ Receive(w, e)
    \/ \E w \in Workers : InstallStep(w)
    \/ \E w \in Workers : LocalStep(w)

SpecInstall == RouteInit /\ [][InstallNext]_vars

\* every goroutine that can take a step is scheduled, and a goroutine
\* waiting for a sync.Mutex gets it once it has been free often enough
\* (the mutex hands itself to a starving waiter)
Fairness ==
    \A w \in Workers :
        /\ WF_vars(InstallStep(w) \/ LocalStep(w))
        /\ SF_vars(AcquireInstallLock(w))
        /\ SF_vars(LocalPutLock(w))

FairInstall == SpecInstall /\ Fairness

\* binary GETs for every combination of a few accepted identifiers, each taken
\* as far as the cache key the handler forms
MaxKeyRequests == 2
KeyTable ==
    {Routed([method |-> "GET", segs |-> <<r, n, p, ArchiveName(p, v, o, a)>>]) :
        r \in {RegistryIO, DotDot}, n \in {Hashicorp, <<"h", "-", "c">>},
        p \in {Aws, Awscc, <<"a", "-", "w", "s">>},
        v \in {V100, V200, V100 \o <<"-", "r", "c">>},
        o \in {Linux, Darwin}, a \in {Arm, Arm \o <<"6", "4">>}}

KeyNext == \E w \in Workers, e \in KeyTable : received < MaxKeyRequests /\ Receive(w, e)

SpecKey == RouteInit /\ [][KeyNext]_vars

----------------------------------------------------------------------------
(* Properties of the stores *)

\* the file at path holds the whole payload its writer was given
Whole(path) == path \in DOMAIN files /\ files[path].data = files[path].want

\* a Put is copying into the file at path
BeingWritten(path) ==
    \E w \in Workers : op[w].name = "Put" /\ op[w].pc = "copy" /\ JoinBase(op[w].key) = path

\* the file at path is what an aborted Put left behind
Torn(path) == path \in DOMAIN files /\ ~Whole(path) /\ ~BeingWritten(path)

\* in this step Exists answers true, or Get obtains its reader
AnswersPresent(w) ==
    \/ op[w].name = "Exists" /\ op[w].pc # "ret" /\ op'[w].pc = "ret" /\ op'[w].ok
    \/ op[w].name = "Get" /\ ~op[w].ok /\ op'[w].name = "Get" /\ op'[w].ok

\* in this step DeleteByPrefix returns without error
DeleteReturns(w) ==
    /\ op[w].name = "DeleteByPrefix" /\ op[w].pc # "ret"
    /\ op'[w].name = "DeleteByPrefix" /\ op'[w].pc = "ret" /\ op'[w].err = "nil"

\* this step is taken by w's DeleteByPrefix
DeleteActs(w) == op[w].name = "DeleteByPrefix" /\ op[w].pc # "ret" /\ op'[w] # op[w]

\* C2: on the local store a reader is never given a positive answer for, or a
\* reader over, an entry that is only partially written
C2_NoPartialEntryVisible ==
    [][\A w \in Workers :
          (backend = "local" /\ AnswersPresent(w)) => Whole(JoinBase(op[w].key))]_vars

\* C4: on the local store an entry left behind by an aborted install (a crash
\* during Put, or a failed write) is never reported present
C4_AbortedInstallInvisible ==
    [][\A w \in Workers :
          (backend = "local" /\ AnswersPresent(w)) => ~Torn(JoinBase(op[w].key))]_vars

\* C5: a local-store operation whose key normalises to a path outside the root
\* returns an error, and nothing outside the root is created
C5_EscapingKeyRejected ==
    backend = "local" =>
        /\ \A w \in Workers :
              (op[w].pc = "ret" /\ ~UnderBase(JoinBase(op[w].key))) => op[w].err # "nil"
        /\ \A f \in DOMAIN files : UnderBase(f)
        /\ \A d \in dirs : UnderBase(d) \/ IsPathPrefix(d, BaseDir)

C7_DeleteLeavesSiblings ==
    [][\A w \in Workers :
          DeleteActs(w) =>
              \A k \in StoreKeys : ~Covered(k, op[w].key) => EntryOf(k)' = EntryOf(k)]_vars

----------------------------------------------------------------------------
(* Properties of the server *)

\* the requests that have been answered
Done == {w \in Workers : request[w].pc = "done"}

\* w's request is a binary GET for TheKey that found no entry, and neither the
\* upstream nor the store failed while it was served
CleanMiss(w) ==
    /\ request[w].handler = "DownloadProvider" /\ request[w].key = TheKey
    /\ request[w].missed /\ request[w].clean

\* C1: when all the requests received are binary GETs that missed on the same
\* absent key, with the upstream healthy and the digest matching, exactly one
\* archive download has been sent upstream and every request is answered 200
C1_SingleDownload ==
    (Done # {} /\ received = Cardinality(Done) /\ \A w \in Done : CleanMiss(w))
        => /\ archiveCalls = 1
           /\ \A w \in Done : request[w].status = 200

\* C3: an entry Get returns as present has content whose SHA-256 is the shasum
\* the upstream reported for an install of that key
C3_VisibleEntryMatchesDigest ==
    \A w \in Workers :
        (op[w].name = "Get" /\ op[w].pc = "ret" /\ op[w].err = "nil")
            => \E p \in reported :
                  p[1] = op[w].key /\ p[2] = EncodeToString(Sha256(op[w].data))

\* the request is answered 400 and has caused no store call and no upstream call
Rejected(r) == r.pc = "done" /\ r.status = 400 /\ r.store = 0 /\ r.upstream = 0

\* the provider name the archive pattern captures from the file name differs
\* from the provider segment of the path
ProviderMismatch(r) ==
    /\ r.method = "GET" /\ Len(r.segs) = 4
    /\ LET matches == FindArchiveSubmatch(r.segs[4])
       IN Len(matches) = 5 /\ matches[2] # r.segs[3]

\* C8: a binary GET whose file name carries another provider name than the
\* path is answered 400, with no store access and no upstream call
C8_ProviderMismatchRejected ==
    \A w \in Workers : ProviderMismatch(request[w]) => Rejected(request[w])

\* the GET reached one of the three registry handlers with an identifier its
\* validators reject, or carried a version, os or arch the router cannot parse
InvalidIdentifier(r) ==
    \/ /\ r.handler \in {"GetProviderIndex", "GetProviderVersion", "DownloadProvider"}
       /\ \/ ~isValidRegistry(r.params.registry)
          \/ ~isValidNamespace(r.params.namespace)
          \/ ~isValidProvider(r.params.provider)
          \/ r.handler # "GetProviderIndex" /\ ~isValidVersion(r.params.version)
          \/ r.handler = "DownloadProvider" /\ ~isValidOS(r.params.os)
          \/ r.handler = "DownloadProvider" /\ ~isValidArch(r.params.arch)
    \/ r.handler \in {"InvalidFile", "Unsupported"}

InvalidDelete(r) ==
    /\ r.handler = "DeleteCache"
    /\ \/ ~isValidRegistry(r.params.registry) \/ r.params.registry = DotDot
       \/ r.params.namespace # <<>> /\ ~isValidNamespace(r.params.namespace)
       \/ r.params.provider # <<>> /\ ~isValidProvider(r.params.provider)
       \/ r.params.version # <<>> /\ ~isValidVersion(r.params.version)

\* C10: a DELETE with an invalid path segment is answered 400 and
\* DeleteByPrefix is not called
C10_InvalidDeleteRejected ==
    \A w \in Workers : InvalidDelete(request[w]) => Rejected(request[w])

----------------------------------------------------------------------------
(* The install path of DownloadProvider *)

\* the step in which worker w's archive download ends with a digest that
\* differs from the one the upstream reported
DigestMismatch(w) ==
    request[w].pc = "download" /\ request'[w].fault = "archive mismatch"

\* C11: when the SHA-256 computed over the downloaded archive differs from the
\* shasum the upstream reported, the binary GET is answered 500 "failed to
\* download or verify provider binary", storage.Put is not called for the
\* request (its only store call is the first Get), and the store is left as it
\* was
C11_DigestMismatchAborts ==
    [][\A w \in Workers :
          DigestMismatch(w) =>
              /\ request'[w].pc = "done"
              /\ request'[w].status = 500
              /\ request'[w].error = "failed to download or verify provider binary"
              /\ request'[w].store = 1
              /\ op'[w].name = "none"
              /\ UNCHANGED <<files, dirs, bucket>>]_vars

C11_Witness ==
    \E w \in Workers :
        /\ request[w].fault = "archive mismatch"
        /\ request[w].pc = "done"
        /\ request[w].status = 500
        /\ ~Present(request[w].key)

----------------------------------------------------------------------------
(* The hit path of DownloadProvider *)

\* a step of the first storage.Get of worker w's binary GET: a step inside
\* Get, or the handler taking its result
FirstGetStep(w) == request[w].pc = "get" /\ op[w].name = "Get" /\ op'[w] # op[w]
\* the step in which the Get obtains the entry's reader
ReaderObtained(w) == ~op[w].ok /\ op'[w].name = "Get" /\ op'[w].ok
\* the step in which the Get returns the miss
MissReturned(w) == op[w].pc # "ret" /\ op'[w].pc = "ret" /\ op'[w].err = "ErrNotExist"
\* the step in which the handler answers from a Get that returned a reader
ServedHit(w) == op[w].pc = "ret" /\ op[w].err = "nil"

\* C12: a binary GET whose key the store holds (its storage.Get returns a
\* reader) is answered 200 with exactly the bytes the reader was opened on,
\* makes no upstream call, and over the steps of its Get cache_hits_total goes
\* up by exactly 1 (in the step that obtains the reader, and in no other) while
\* cache_misses_total is left as it is
C12_HitServedFromCache ==
    [][\A w \in Workers :
          FirstGetStep(w) =>
              /\ hits' - hits = (IF ReaderObtained(w) THEN 1 ELSE 0)
              /\ misses' - misses = (IF MissReturned(w) THEN 1 ELSE 0)
              /\ ReaderObtained(w) =>
                     /\ Present(op[w].key)
                     /\ \A e \in EntryOf(op[w].key) : op'[w].data = e.data
              /\ op'[w].ok => op'[w].err = "nil"
              /\ ServedHit(w) =>
                     /\ op[w].ok
                     /\ request'[w].pc = "done"
                     /\ request'[w].status = 200
                     /\ request'[w].body = op[w].data
                     /\ request'[w].upstream = 0
                     /\ archiveCalls' = archiveCalls]_vars

C12_Witness ==
    \E w \in Workers :
        /\ request[w].pc = "done"
        /\ request[w].handler = "DownloadProvider"
        /\ request[w].status = 200
        /\ request[w].upstream = 0
        /\ request[w].body # <<>>
        /\ hits > 0

----------------------------------------------------------------------------
(* Entries after they are published *)

\* worker w's Put(k, b) has returned nil and the store holds b under k
Published(w) ==
    /\ op[w].name = "Put" /\ op[w].pc = "ret" /\ op[w].err = "nil"
    /\ \E e \in EntryOf(op[w].key) : e.data = op[w].payload

\* C13: once Put(k, b) has returned success the bytes stored under k stay b
\* until a DeleteByPrefix removes the entry: no step changes them, and in
\* particular no later Put(k, b') does, on the local store and on the S3 store
C13_PublishedEntryImmutable ==
    [][\A w \in Workers, k \in StoreKeys :
          Published(w) /\ op[w].key = k =>
              /\ \A e \in EntryOf(k)' : e.data = op[w].payload
              /\ EntryOf(k)' = {} =>
                     \E v \in Workers : DeleteActs(v) /\ Covered(k, op[v].key)]_vars

----------------------------------------------------------------------------
(* Concurrent Puts on the local store *)

\* callers that only Put, as in TestLocalStorage_ConcurrentAccess
PutCall(w) ==
    /\ op[w].name = "none"
    /\ calls < MaxCalls
    /\ calls' = calls + 1
    /\ \E k \in StoreKeys, b \in Payloads : Call(w, "Put", k, b)
    /\ UNCHANGED <<backend, loop, proc, files, dirs, bucket, mutexes, hits, misses, deletions, sizeGauge, crashes>>
    /\ ServerUnchanged

\* the steps of LocalStorage.Put on a disk that takes every write
LocalPutStep(w) ==
    \/ getMutex(w)
    \/ LocalPutLock(w)
    \/ LocalPutStat1(w)
    \/ LocalPutStat2(w)
    \/ LocalPutMkdir(w)
    \/ LocalPutCreate(w)
    \/ LocalPutWrite(w)
    \/ LocalPutDone(w)

PutNext ==
    \/ \E w \in Workers : PutCall(w)
    \/ \E w \in Workers : LocalPutStep(w)
    \/ \E w \in Workers : StoreReturn(w)

SpecPut == RouteInit /\ [][PutNext]_vars

\* worker w is between mutex.Lock() and the deferred mutex.Unlock() of Put
InSection(w) ==
    op[w].name = "Put" /\ op[w].pc \in {"stat1", "stat2", "mkdir", "create", "copy"}

\* in this step worker w's Put returns
PutReturns(w) == op[w].name = "Put" /\ op[w].pc # "ret" /\ op'[w].pc = "ret"

\* C14: concurrent Puts for the same key on the local store exclude each other
\* between Lock and Unlock; each of them returns nil; the file is created by
\* the caller that holds the mutex while the key is absent (the first to
\* acquire it) with that caller's payload, is only ever appended to by that
\* caller, and once complete is never changed, so that when a Put returns the
\* stored content is the complete payload of that one caller
C14_ConcurrentPutsSerialized ==
    [][/\ \A w, v \in Workers :
             InSection(w)' /\ InSection(v)' /\ op'[w].key = op'[v].key => w = v
       /\ \A w \in Workers :
             PutReturns(w) =>
                 /\ op'[w].err = "nil"
                 /\ \A k \in StoreKeys : op[w].key = k =>
                        \E e \in EntryOf(k)' : e.data = e.want
       /\ \A path \in DOMAIN files :
             /\ path \in DOMAIN files'
             /\ files'[path].id = files[path].id
             /\ files'[path].want = files[path].want
             /\ Whole(path) => files'[path] = files[path]
             /\ files'[path] # files[path] =>
                    \E w \in Workers :
                        /\ InSection(w) /\ JoinBase(op[w].key) = path
                        /\ op[w].id = files[path].id
                        /\ files'[path].data = SubSeq(op[w].payload, 1, Len(files[path].data) + 1)
       /\ \A path \in DOMAIN files' \ DOMAIN files :
             \E w \in Workers :
                 /\ InSection(w) /\ JoinBase(op[w].key) = path
                 /\ files'[path].id = op[w].id
                 /\ files'[path].want = op[w].payload]_vars

\* two Puts of different payloads for one key have both returned nil, and the
\* file holds the whole payload of the one that wrote it
C14_Witness ==
    \E w, v \in Workers :
        /\ op[w].name = "Put" /\ op[w].pc = "ret" /\ op[w].err = "nil"
        /\ op[v].name = "Put" /\ op[v].pc = "ret" /\ op[v].err = "nil"
        /\ op[w].key = op[v].key
        /\ op[w].payload # op[v].payload
        /\ \E e \in EntryOf(op[w].key) : e.id = op[w].id /\ e.data = op[w].payload

----------------------------------------------------------------------------
(* What DeleteByPrefix reports *)

\* the paths (local store) or keys (S3 store) under which an entry is stored
StoredKeys == IF backend = "local" THEN DOMAIN files ELSE DOMAIN bucket

\* C15: the count DeleteByPrefix returns equals the number of entries its call
\* removed from the store, in every execution, including those in which Puts
\* to keys under the prefix run concurrently with it
C15_DeleteCountsRemoved ==
    [][\A w \in Workers :
          DeleteReturns(w) => op'[w].count = Cardinality(StoredKeys \ StoredKeys')]_vars

----------------------------------------------------------------------------
(* DELETE requests *)

\* worker w's DELETE is served with no other request beside it
Alone(w) == request[w].quiet /\ request[w].seq = received

\* the errors of the store's environment: a failing S3 API call, a failing
\* file system call
EnvFaults == {"s3 api error", "i/o error"}

\* a step of the DeleteByPrefix of w's DELETE, or the handler taking its
\* result, for a prefix no stored key began with, the environment not failing
EmptyDeleteStep(w) ==
    /\ request[w].pc = "delete" /\ request[w].empty /\ Alone(w)
    /\ op'[w] # op[w]
    /\ op[w].err \notin EnvFaults /\ op'[w].err \notin EnvFaults

DeleteReceived(w) ==
    /\ received' = received + 1
    /\ request'[w] # request[w]
    /\ request'[w].method = "DELETE"

\* the step in which DeleteCache answers
DeleteAnswered(w) == request[w].pc = "delete" /\ request'[w].pc = "done"

\* C17: a DELETE with one to four path segments reaches DeleteCache, which
\* calls DeleteByPrefix exactly once, with the path segments joined by "/",
\* and answers 200 with message "Cache cleared successfully" and deleted equal
\* to the returned count, or 500 with error "Failed to delete cache: ..." when
\* the store returns an error
C17_DeleteCallsStoreOnce ==
    [][\A w \in Workers :
          /\ DeleteReceived(w) =>
                 /\ Len(request'[w].segs) \in 1..4 => request'[w].handler = "DeleteCache"
                 /\ request'[w].handler = "DeleteCache" =>
                        /\ op'[w].name = "DeleteByPrefix"
                        /\ op'[w].pc = Entry("DeleteByPrefix")
                        /\ op'[w].key = JoinSlash(request'[w].segs)
                        /\ request'[w].store = 1
                        /\ calls' = calls + 1
          /\ request[w].pc = "delete" =>
                 /\ request'[w].store = 1 /\ request'[w].upstream = 0
                 /\ calls' = calls
          /\ DeleteAnswered(w) =>
                 IF op[w].err = "nil"
                 THEN /\ request'[w].status = 200
                      /\ request'[w].message = "Cache cleared successfully"
                      /\ request'[w].deleted = op[w].count
                      /\ request'[w].error = ""
                 ELSE /\ request'[w].status = 500
                      /\ request'[w].error = "Failed to delete cache"
                      /\ request'[w].message = ""]_vars

\* an answered DELETE of several segments that removed an entry
C17_Witness ==
    \E w \in Workers :
        /\ request[w].handler = "DeleteCache" /\ request[w].pc = "done"
        /\ Len(request[w].segs) = 4
        /\ request[w].status = 200 /\ request[w].deleted = 1
        /\ request[w].store = 1

----------------------------------------------------------------------------
(* Upstream failures *)

\* the upstream call of request r failed in transport or with a non-2xx status
UpstreamFailed(r) ==
    r.fault \in {"versions neterr", "versions non200", "info neterr", "info non200",
                 "archive neterr", "archive non200"}

\* C18: every upstream failure (transport error or non-2xx status) is answered
\* 502, for the versions listing, the download descriptor and the archive
\* download alike; 500 is kept for internal faults
C18_UpstreamFailureIs502 ==
    \A w \in Workers :
        request[w].pc = "done" /\ UpstreamFailed(request[w]) => request[w].status = 502

----------------------------------------------------------------------------
(* The index and the version manifest *)

\* request r was answered from a versions listing the upstream delivered
Listed(r) == r.pc = "done" /\ r.upstream = 1 /\ r.fault = ""

\* C19: the version-manifest GET for version v is answered 404 "version not
\* found" exactly when v is not among the versions the upstream lists;
\* otherwise 200 with an archives map that has, for each platform (os, arch)
\* the upstream lists for v, the key "<os>_<arch>" mapped to
\* "terraform-provider-<provider>_<v>_<os>_<arch>.zip", and no other key
C19_ManifestFromListing ==
    \A w \in Workers :
        LET r == request[w]
            mine == {x \in r.listed : x.version = r.params.version}
        IN r.handler = "GetProviderVersion" =>
               /\ r.status = 404 => Listed(r) /\ mine = {} /\ r.error = "version not found"
               /\ Listed(r) =>
                      IF mine = {}
                      THEN r.status = 404
                      ELSE /\ r.status = 200
                           /\ r.json = {<<pl[1] \o <<"_">> \o pl[2],
                                          TerraformProvider \o r.params.provider \o <<"_">>
                                              \o r.params.version \o <<"_">> \o pl[1]
                                              \o <<"_">> \o pl[2] \o DotZip>> :
                                            pl \in UNION {x.platforms : x \in mine}}

\* a manifest of three platforms, from a listing that holds another version too
C19_Witness ==
    \E w \in Workers :
        /\ request[w].handler = "GetProviderVersion" /\ Listed(request[w])
        /\ request[w].status = 200
        /\ Cardinality(request[w].json) = 3
        /\ Cardinality(request[w].listed) = 2

\* C20: the index GET is answered 200 with a versions object whose keys are
\* exactly the version strings of the upstream's listing (each mapped to an
\* empty object), and it makes no store access
C20_IndexFromListing ==
    \A w \in Workers :
        LET r == request[w]
        IN r.handler = "GetProviderIndex" =>
               /\ r.store = 0 /\ op[w].name = "none"
               /\ Listed(r) =>
                      /\ r.status = 200
                      /\ r.json = {x.version : x \in r.listed}

\* an index of two versions
C20_Witness ==
    \E w \in Workers :
        /\ request[w].handler = "GetProviderIndex" /\ Listed(request[w])
        /\ request[w].status = 200
        /\ request[w].json = {V100, V200}

----------------------------------------------------------------------------
(* Cancellation of the inbound request *)

\* C21: when the context of the inbound request is cancelled while an upstream
\* call of the request is pending or in flight (versions listing, download
\* descriptor, archive download), that call is aborted: it ends the request
\* with a failure, and no Put is performed for the request
C21_CancelAbortsUpstream ==
    [][\A w \in Workers :
          /\ request[w].cancelled
          /\ request[w].pc \in {"versions", "info", "download"}
          /\ request'[w] # request[w]
          => /\ request'[w].pc = "done"
             /\ request'[w].fault # ""
             /\ request'[w].store = request[w].store
             /\ op'[w].name # "Put"]_vars

----------------------------------------------------------------------------
(* The life of an entry: installed, invalidated, installed again *)

\* the entry stored under key k, looked up through the paths of KeyPaths
EntryAt(k) ==
    IF backend = "local"
    THEN {files[kp[2]] : kp \in {x \in KeyPaths : x[1] = k /\ x[2] \in DOMAIN files}}
    ELSE IF k \in DOMAIN bucket THEN {bucket[k]} ELSE {}

\* the store holds under k the whole payload of the Put that wrote it
Complete(k) == \E e \in EntryAt(k) : e.data = e.want

\* a step of worker w's binary GET, served alone, whose key was absent when it
\* arrived (never installed, or removed by a DELETE)
MissStep(w) ==
    /\ request[w].handler = "DownloadProvider"
    /\ request[w].empty /\ Alone(w)
    /\ request'[w] # request[w] /\ request'[w].seq = request[w].seq

----------------------------------------------------------------------------
(* The counters *)

\* by how much cache_hits_total + cache_misses_total changes in the step
Counted == (hits' + misses') - (hits + misses)

\* C23: with requests served one at a time, cache_hits_total +
\* cache_misses_total goes up by exactly one for each binary GET whose
\* parameters pass validation, served from the cache or installing alike, and
\* by nothing for any other request: the counters move only in the first
\* storage.Get of a binary GET, and once
C23_OneCountPerBinaryGet ==
    [][\A w \in {1} :
          /\ Counted \in {0, 1}
          /\ Counted = 1 =>
                 /\ request[w].handler = "DownloadProvider"
                 /\ request[w].pc = "get"
                 /\ ~op[w].ok
          /\ request[w].pc = "get" /\ request'[w].pc # "get" /\ op[w].err \notin EnvFaults =>
                 op[w].ok \/ op[w].err = "ErrNotExist"]_vars

\* C24: with DELETE requests served one at a time on every DELETE route,
\* cache_deletions_total equals the sum of the deleted counts of the 200
\* responses: it rises by the count DeleteByPrefix returns in the step in which
\* a DeleteByPrefix returns without error, that count is the deleted field of
\* the response, and it moves in no other step
C24_DeletionsMatchResponses ==
    [][\A w \in {1} :
          /\ deletions' - deletions = (IF DeleteReturns(w) THEN op'[w].count ELSE 0)
          /\ DeleteAnswered(w) /\ op[w].err = "nil" => request'[w].deleted = op[w].count]_vars


\* C25: a request no route matches is answered 404 "Not Found"; a GET whose
\* fourth segment is neither index.json, nor a version (with or without
\* .json), nor a provider archive name is answered 400 and touches neither
\* the store nor the upstream registry.
Unmatched(r) ==
    \/ r.method \notin {"GET", "DELETE"}
    \/ r.method = "GET" /\ Len(r.segs) # 4
    \/ r.method = "DELETE" /\ Len(r.segs) \notin 1..5
NotAFile(r) ==
    /\ r.method = "GET" /\ Len(r.segs) = 4
    /\ r.segs[4] # IndexJson
    /\ ~IsRouteVersion(TrimSuffix(r.segs[4], DotJson))
    /\ FindArchiveSubmatch(r.segs[4]) = <<>>
C25_UnroutedRequestsRefused ==
    \A w \in {1} :
        LET r == request[w]
        IN /\ r.pc # "idle" /\ Unmatched(r) =>
                  /\ r.pc = "done" /\ r.status = 404 /\ r.error = "Not Found"
                  /\ r.store = 0 /\ r.upstream = 0
           /\ r.pc # "idle" /\ NotAFile(r) => Rejected(r)
C25_Witness ==
    /\ request[1].pc = "done" /\ NotAFile(request[1]) /\ request[1].status = 400
    /\ HasSuffix(request[1].segs[4], DotZip)


\* C26: a Get that returns no entry returns os.ErrNotExist, also when the
\* entry is deleted between its existence check and its open or fetch, and
\* the binary handler then treats it as a miss and never answers 500
\* (failures of the store's own calls aside).
GetReturns(w) == op[w].name = "Get" /\ op[w].pc # "ret" /\ op'[w].name = "Get" /\ op'[w].pc = "ret"
C26_AbsentEntryIsNotExist ==
    [][\A w \in Workers :
          /\ GetReturns(w) /\ ~op'[w].ok /\ op'[w].err \notin EnvFaults \cup {"stat failed"} =>
                 op'[w].err = "ErrNotExist"
          /\ request[w].pc = "get" /\ request'[w].pc = "done"
                 /\ op[w].err \notin EnvFaults \cup {"stat failed"} =>
                 request'[w].status # 500]_vars


\* C27: at most one worker at a time is inside the install block of
\* downloadFile (archive download, digest verification, Put), whatever the
\* keys: a worker inside it holds the install lock from entry to exit.
InstallBlock(w) == request[w].pc \in {"download", "put"}
C27_OneInstallAtATime ==
    /\ \A w, v \in Workers : InstallBlock(w) /\ InstallBlock(v) => w = v
    /\ \A w \in Workers :
          /\ InstallBlock(w) => mu = w
          /\ op[w].name = "Put" => InstallBlock(w)
          /\ mu = w => InstallBlock(w)
\* one worker is writing its archive while the other waits to install another
C27_Witness ==
    \E w, v \in Workers :
        /\ request[w].pc = "put" /\ op[w].name = "Put" /\ op[w].pc = "copy"
        /\ request[v].pc = "lock" /\ request[v].key # request[w].key


\* C28: under fair scheduling every binary GET that has been received is
\* eventually answered; a worker whose request is answered holds neither the
\* install lock nor a key mutex, a worker holds a key mutex only while it
\* holds the install lock (the lock order is install lock, then key mutex),
\* and no worker waits for the install lock while it holds a key mutex.
HoldsKeyMutex(w) == \E k \in DOMAIN mutexes : mutexes[k] = w
Pending(w) == request[w].handler = "DownloadProvider" /\ request[w].pc \notin {"idle", "done"}
Answered(w) == request[w].pc = "done" /\ request[w].status # 0
C28_BinaryGetCompletes ==
    /\ [](\A w \in Workers :
             /\ request[w].pc \in {"idle", "done"} => mu # w /\ ~HoldsKeyMutex(w)
             /\ HoldsKeyMutex(w) => mu = w
             /\ request[w].pc = "lock" => ~HoldsKeyMutex(w))
    /\ \A w \in Workers : Pending(w) ~> Answered(w)
\* one worker waits for the install lock while the other is inside its Put
\* with the key mutex held
C28_Witness ==
    \E w, v \in Workers :
        /\ Pending(w) /\ request[w].pc = "lock"
        /\ Pending(v) /\ mu = v /\ HoldsKeyMutex(v)


\* C29: a binary GET whose archive was downloaded, verified and Put is
\* answered 200 with the archive, whatever DELETE requests run beside it
\* (failures of the store's own calls aside).
InstalledAnswer(w) == request[w].pc = "reopen" /\ request'[w].pc = "done"
C29_InstalledGetAnswers200 ==
    [][\A w \in Workers :
          InstalledAnswer(w) /\ op[w].err \notin EnvFaults \cup {"stat failed"} =>
              /\ request'[w].status = 200
              /\ request'[w].body # <<>>]_vars


\* C30: cache_size_bytes moves by deltas: a Put that returns has raised it by
\* the size of the entry it created or, for an existing key, left it as it
\* was; a DeleteByPrefix lowers it by what it removed; the gauge is never
\* negative.
C30_SizeGaugeByDeltas ==
    [][/\ sizeGauge' >= 0
       /\ \A w \in Workers :
             PutReturns(w) /\ op'[w].err = "nil" =>
                 sizeGauge' - sizeGauge \in {0, Len(op[w].payload)}
       /\ \A w \in Workers :
             DeleteReturns(w) /\ op'[w].count = 0 => sizeGauge' = sizeGauge]_vars


\* C31: when storage.Get returns an error other than os.ErrNotExist the
\* binary handler answers 500 and makes no upstream call and no Put for that
\* request.
GetFailed(w) ==
    /\ request[w].handler = "DownloadProvider" /\ request[w].pc = "get"
    /\ op[w].pc = "ret" /\ op[w].err \notin {"nil", "ErrNotExist"}
C31_GetErrorIs500 ==
    [][\A w \in Workers :
          GetFailed(w) /\ request'[w] # request[w] =>
              /\ request'[w].pc = "done" /\ request'[w].status = 500
              /\ request'[w].error = "failed to get file from cache"
              /\ request'[w].upstream = 0 /\ request'[w].store = 1
              /\ op'[w].name = "none"]_vars
\* a binary GET answered 500 after its only store call, a failed Get
C31_Witness ==
    \E w \in Workers :
        /\ request[w].handler = "DownloadProvider" /\ request[w].pc = "done"
        /\ request[w].status = 500 /\ request[w].error = "failed to get file from cache"
        /\ request[w].upstream = 0 /\ request[w].store = 1


\* C32: a download descriptor with an empty download_url or an empty shasum
\* is answered 500 with no archive download and no Put; so every Put the
\* handler starts carries bytes whose SHA-256 equals a non-empty digest the
\* upstream reported.
DescriptorIncomplete(w) ==
    request[w].pc = "info" /\ request'[w].fault = "info incomplete"
PutStarts(w) == op[w].name # "Put" /\ op'[w].name = "Put"
ManifestAnswered(r) == r.handler = "GetProviderVersion" /\ r.pc = "done" /\ r.status = 200
Followed(r, url) == Routed([method |-> "GET", segs |-> <<r.segs[1], r.segs[2], r.segs[3], url>>])
C33_ManifestUrlsAreServed ==
    \A w \in {1} :
        ManifestAnswered(request[w]) =>
            \A a \in request[w].json :
                /\ Followed(request[w], a[2]).handler = "DownloadProvider"
                /\ Followed(request[w], a[2]).valid


\* C34: a GET whose fourth segment is <v>.json, for a version v that
\* isValidVersion accepts, is dispatched to the version-manifest handler with
\* version = v and is not refused as an unsupported request.
AsksManifest(r) ==
    /\ r.pc # "idle" /\ r.method = "GET" /\ Len(r.segs) = 4
    /\ HasSuffix(r.segs[4], DotJson)
    /\ r.segs[4] # IndexJson
    /\ isValidVersion(TrimSuffix(r.segs[4], DotJson))
C34_ValidVersionReachesManifest ==
    \A w \in {1} :
        AsksManifest(request[w]) =>
            /\ request[w].handler = "GetProviderVersion"
            /\ request[w].params.version = TrimSuffix(request[w].segs[4], DotJson)


\* C35: for identities that pass validation the cache key has exactly the
\* five segments registry, namespace, provider, version and
\* terraform-provider-<provider>_<version>_<os>_<arch>.zip, and two
\* identities with the same key are the same identity.
Identity(r) ==
    <<r.params.registry, r.params.namespace, r.params.provider, r.params.version,
      r.params.os, r.params.arch>>
Keyed(r) == r.handler = "DownloadProvider" /\ r.pc = "get"
C35_CacheKeyInjective ==
    /\ \A w \in Workers :
          Keyed(request[w]) =>
              LET p == request[w].params
              IN SplitSlash(request[w].key) =
                     <<p.registry, p.namespace, p.provider, p.version,
                       TerraformProvider \o p.provider \o <<"_">> \o p.version \o <<"_">>
                           \o p.os \o <<"_">> \o p.arch \o DotZip>>
    /\ \A w, v \in Workers :
          Keyed(request[w]) /\ Keyed(request[v]) /\ request[w].key = request[v].key =>
              Identity(request[w]) = Identity(request[v])
\* two keys formed for identities that differ in the architecture alone
C35_Witness ==
    \E w, v \in Workers :
        /\ Keyed(request[w]) /\ Keyed(request[v])
        /\ request[w].params.arch # request[v].params.arch
        /\ [request[w].params EXCEPT !.arch = <<>>, !.file = <<>>]
              = [request[v].params EXCEPT !.arch = <<>>, !.file = <<>>]
        /\ request[w].key # request[v].key


\* C36: the metrics wrapper is transparent: each Get, Put, Exists or
\* DeleteByPrefix a caller makes starts the wrapped store's operation of the
\* same name once, with the caller's key or prefix and payload; the wrapper
\* itself records no metric and touches no entry, and what the caller gets
\* back is the wrapped operation's own result.
CallStarts(w) == op[w].name = "none" /\ op'[w].name # "none"
C36_WrapperDelegates ==
    [][/\ calls' = calls + Cardinality({w \in Workers : CallStarts(w)})
       /\ \A w \in Workers :
          /\ CallStarts(w) =>
                /\ op'[w].name \in {"Get", "Put", "Exists", "DeleteByPrefix"}
                /\ <<op'[w].name, op'[w].key, op'[w].payload>> = op'[w].asked
                /\ calls' = calls + 1 /\ op'[w].id = calls'
                /\ op'[w].err = "nil" /\ ~op'[w].ok /\ op'[w].count = 0 /\ op'[w].data = <<>>
                /\ UNCHANGED <<hits, misses, deletions, sizeGauge, files, dirs, bucket>>
          /\ op[w].name # "none" /\ op'[w].name # "none" =>
                /\ op'[w].asked = op[w].asked /\ op'[w].id = op[w].id
                /\ <<op'[w].name, op'[w].key, op'[w].payload>> = op'[w].asked]_vars
\* an Exists and a Put made through the wrapper have both returned
C36_Witness ==
    \E w, v \in Workers :
        /\ op[w].name = "Exists" /\ op[w].pc = "ret" /\ op[w].asked[2] = op[w].key
        /\ op[v].name = "Put" /\ op[v].pc = "ret" /\ op[v].asked[3] = op[v].payload
        /\ op[v].err = "nil"


\* C37: Exists on the local store has no side effect: whether the key is
\* present or absent, its steps change no stored entry, no directory, no
\* counter and not the size gauge (a restart of the process is not a step
\* of Exists).
ExistsActs(w) ==
    backend = "local" /\ op[w].name = "Exists" /\ op'[w] # op[w] /\ crashes' = crashes
ExistsStarts(w) == backend = "local" /\ op[w].name = "none" /\ op'[w].name = "Exists"
C37_ExistsHasNoEffect ==
    [][\A w \in Workers :
          ExistsActs(w) \/ ExistsStarts(w) =>
              UNCHANGED <<files, dirs, bucket, mutexes, hits, misses, deletions, sizeGauge>>]_vars
\* one Exists has answered true and another false
C37_Witness ==
    \E w, v \in Workers :
        /\ backend = "local"
        /\ op[w].name = "Exists" /\ op[w].pc = "ret" /\ op[w].ok /\ op[w].err = "nil"
        /\ op[v].name = "Exists" /\ op[v].pc = "ret" /\ ~op[v].ok /\ op[v].err = "nil"


----------------------------------------------------------------------------
(* The batch loop of S3Storage.DeleteByPrefix on listings of every length *)

BatchInit == Init /\ backend = "s3"

BatchNext ==
    \/ ListObjects
    \/ ListObjectsFails
    \/ DeleteObjects
    \/ DeleteObjectsFails

SpecBatch == BatchInit /\ [][BatchNext]_vars

RECURSIVE BatchKeys(_, _)
\* the number of identifiers in the first k batches
BatchKeys(bs, k) == IF k = 0 THEN 0 ELSE BatchKeys(bs, k - 1) + (bs[k][2] - bs[k][1])

\* the batches are the consecutive slices objectIds[lo:hi], from index 0 on,
\* each of 1 to 1000 identifiers
Consecutive(bs, n) ==
    /\ \A k \in DOMAIN bs : /\ bs[k][1] < bs[k][2]
                            /\ bs[k][2] - bs[k][1] <= 1000
                            /\ bs[k][2] <= n
    /\ bs # <<>> => bs[1][1] = 0
    /\ \A k \in DOMAIN bs : k > 1 => bs[k][1] = bs[k - 1][2]

\* C38: S3 DeleteByPrefix issues DeleteObjects batches of at most 1000 keys
\* which are consecutive slices of the listing, so that no listed key is in
\* two batches; when every batch has succeeded the batches cover the whole
\* listing and the call returns the number of listed keys without an error;
\* when batch j fails the call returns the number of keys in the batches
\* before j together with the error, and issues no further batch.
C38_BatchesCoverListing ==
    /\ Consecutive(loop.batches, loop.n)
    /\ loop.pc = "done" /\ loop.err = "nil" =>
          /\ loop.failed = 0
          /\ loop.n > 0 => loop.batches[Len(loop.batches)][2] = loop.n
          /\ BatchKeys(loop.batches, Len(loop.batches)) = loop.n
          /\ loop.ret = loop.n
    /\ loop.failed > 0 =>
          /\ loop.pc = "done"
          /\ loop.failed = Len(loop.batches)
          /\ loop.err = "failed to delete objects"
          /\ loop.ret = BatchKeys(loop.batches, loop.failed - 1)

\* a listing of three batches, the last of one key, whose third batch failed
C38_Witness ==
    /\ loop.pc = "done"
    /\ Len(loop.batches) = 3
    /\ loop.n = 2 * DeleteBatchSize + 1
    /\ loop.failed = 3
    /\ loop.ret = 2 * DeleteBatchSize


----------------------------------------------------------------------------
(* main() around the signal: requests on both listeners, the signal, the two
   shutdown goroutines and the wait for them *)

MainNext ==
    \/ \E s \in Listeners : Accept(s)
    \/ \E s \in Listeners : Finish(s)
    \/ Signal
    \/ Spawn
    \/ \E s \in Listeners : ShutdownCall(s)
    \/ Tick
    \/ \E s \in Listeners : ShutdownReturn(s)
    \/ \E s \in Listeners : Send(s)
    \/ MainReceive
    \/ Exit

SpecMain == Init /\ [][MainNext]_vars

\* a goroutine that can run is scheduled and time passes; nothing is assumed
\* of the signal, of the clients or of the handlers in flight
MainFairness ==
    /\ WF_vars(Spawn)
    /\ \A s \in Listeners : WF_vars(ShutdownCall(s))
    /\ WF_vars(Tick)
    /\ \A s \in Listeners : WF_vars(ShutdownReturn(s))
    /\ \A s \in Listeners : WF_vars(Send(s))
    /\ WF_vars(MainReceive)
    /\ WF_vars(Exit)

FairMain == SpecMain /\ MainFairness

\* Shutdown has been invoked on listener s
Invoked(s) == proc.l[s].state \in {"draining", "returned", "sent"}
\* the Shutdown call on listener s has returned
Returned(s) == proc.l[s].state \in {"returned", "sent"}

ShutdownOrder ==
    /\ \A s \in Listeners :
          /\ proc.l[s].state # "listening" => proc.pc \in {"waiting", "exited"}
          /\ Invoked(s) => proc.l[s].deadline = 5 /\ proc.l[s].left \in 0..5
          /\ Returned(s) => \/ proc.l[s].res = "nil" /\ proc.l[s].inflight = 0
                            \/ proc.l[s].res = "context deadline exceeded" /\ proc.l[s].left = 0
    /\ proc.pc = "exited" => \A s \in Listeners : Returned(s)

\* C39: Shutdown is invoked on a listener only after the signal, with a
\* deadline of 5 seconds, and returns when the listener is idle or at that
\* deadline; main is at its exit point only when the Shutdown calls on the
\* request listener and on the metrics listener have both returned; once the
\* signal has been received Shutdown is invoked on both listeners and main
\* reaches its exit point.
C39_GracefulShutdown ==
    /\ []ShutdownOrder
    /\ (proc.pc = "signalled") ~> (\A s \in Listeners : Invoked(s))
    /\ (proc.pc = "signalled") ~> (proc.pc = "exited")

\* main has returned; the request listener ran into its deadline with a
\* request still in flight, the metrics listener was idle
C39_Witness ==
    /\ proc.pc = "exited"
    /\ proc.l["srv"].res = "context deadline exceeded"
    /\ proc.l["srv"].inflight > 0
    /\ proc.l["metricsSrv"].res = "nil"


\* worker w's getMutex call takes place in this step
GetMutexActs(w) == AtLocal(w, "Put", "getmutex") /\ op'[w].pc = "lock"

\* C40: while the process runs, no step of any operation - Get, Put, Exists
\* or DeleteByPrefix - removes a key from the local store's mutex map; a
\* getMutex call for a key the map holds returns the stored mutex, in the
\* state it is in, and changes nothing; a call for a key the map does not
\* hold adds one unlocked mutex for it and touches no other; so the callers
\* of getMutex for one key, concurrent or not, all lock the same mutex.
C40_MutexMapOnlyGrows ==
    [][crashes' = crashes =>
          /\ DOMAIN mutexes \subseteq DOMAIN mutexes'
          /\ \A w \in Workers :
                GetMutexActs(w) =>
                   /\ op[w].key \in DOMAIN mutexes'
                   /\ op[w].key \in DOMAIN mutexes => mutexes' = mutexes
                   /\ op[w].key \notin DOMAIN mutexes =>
                         /\ mutexes'[op[w].key] = 0
                         /\ DOMAIN mutexes' = DOMAIN mutexes \cup {op[w].key}
                         /\ \A k \in DOMAIN mutexes : mutexes'[k] = mutexes[k]]_vars

\* two Puts have called getMutex for the same key: one holds the mutex, the
\* other waits for it, after a DeleteByPrefix has returned
C40_Witness ==
    /\ backend = "local"
    /\ \E w, v \in Workers :
          /\ w # v
          /\ op[w].name = "Put" /\ op[v].name = "Put"
          /\ op[w].key = op[v].key
          /\ op[w].pc = "lock"
          /\ mutexes[op[v].key] = v
    /\ deletions > 0

====
